---- MODULE Spec2Model ----
(***************************************************************************)
(* The managed heap of shattuck (core/memory.rs): slots behind raw         *)
(* addresses, the Local/Shared dual cell, in-place promotion, mark-sweep   *)
(* collection from an entry, the checked borrows of a slot, and the thread *)
(* primitive (objects/thread.rs) built on top of the heap.                 *)
(*                                                                         *)
(* Three specifications share the heap operators:                          *)
(*   Spec        the embedder's calls on one Memory;                       *)
(*   SpecThread  one runtime calling a thread method, statement by         *)
(*               statement of make_thread;                                 *)
(*   SpecBorrow  get_ref / get_mut through copies of an Address.           *)
(***************************************************************************)
EXTENDS Bags, Integers, Sequences, FiniteSets, TLC

\* ------------------------------------------------------------------ bounds

\* Largest n_slots_max a heap of Spec and SpecBorrow is constructed with.
MaxCap == 2

\* Most addresses the Node payloads of a heap hold at one time, all together.
MaxHold == 1

\* Largest n_slots_max of the caller's heap in SpecThread.
ThreadCap == 5

\* Most arguments handed to a thread-method call.
MaxArgs == 1

\* Most thread-method calls of one run of SpecThread.
MaxCalls == 1

\* Copies of one Address a thread works with (Address is Copy).
NCopy == 2

\* Most Refs outstanding through one copy of an Address.
MaxBorrow == 2

\* Option::None of an address, and the null handle.
None == 0

\* The Int payloads the embedder stores (memory.rs tests: Int(42)).
Values == {42}

VARIABLES
    cells,      \* raw memory: address -> what the Box<Slot> at that address holds
    arcs,       \* the Arc<RwLock<..>> allocations behind SyncObject handles
    slots,      \* Memory.slots
    entry,      \* Memory.entry (None: never set)
    nmax,       \* Memory.n_slots_max
    ub,         \* ghost: the undefined accesses the last operation made
    last,       \* the last operation and its result
    crashed,    \* the process was aborted by an undefined access
    dropped,    \* the Memory was dropped
    frames,     \* the runtime's stack of frame addresses (SpecThread)
    pc,         \* the position inside a thread-method call (SpecThread)
    join,       \* the local `join` of make_thread's closure (SpecThread)
    ncall,      \* thread-method calls made so far (SpecThread)
    lent,       \* the borrows outstanding through each copy of each address
    held,       \* the guards each thread holds on the lock of each SyncObject
    wait,       \* the blocking accessor each thread is waiting in
    who,        \* the thread that made the last call
    wpc,        \* the position of the worker thread
    wstack,     \* the operand stack of the worker's initial frame (handles)
    wargs,      \* what make_thread's closure moved into the worker
    wres,       \* what the worker's closure returned
    script,     \* main's method and how the method behaves in the worker
    ret,        \* the count the last runtime.call returned
    fr,         \* ghost: what a callee pushed and handed up during a call
    frame_stack,\* Runtime.frame_stack: the env_stack of each frame
    root,       \* the root of the runtime's memory (None: never set)
    nenv,       \* the Env objects appended to the runtime's memory so far
    calls,      \* the run_method invocations in progress, outermost first
    rlast,      \* the last run_method that returned and what it returned
    engine,     \* which run_method runs: Runtime's or Interp's
    reclaimed,  \* ghost: the addresses whose slot a collection released
    queue,      \* Queue.internal of the example's shared queue
    idle_workers, \* Queue.idle_workers: the unparkers of waiting consumers
    idle_hosts, \* Queue.idle_hosts: the unparkers of waiting producers
    work,       \* the example's producer and consumer threads
    sums,       \* what main's joins have returned so far
    peer,       \* a second thread, its heap, and what main read after it
    mark_que,   \* the local `que` of Memory::collect while it marks
    objects,    \* SharedMemoryPriv.objects: id -> hold count of the object
    object_id,  \* SharedMemoryPriv.object_id: the next id Inc hands out
    max_count,  \* SharedMemoryPriv.max_count
    remotes,    \* the RemoteObject handles alive, with their owners
    poisoned,   \* the RwLock around SharedMemoryPriv was poisoned by a panic
    distributed \* ghost: the ids a RemoteObject was ever handed out for

memvars == <<cells, arcs, slots, entry, nmax, ub, last, crashed, dropped>>

threadvars == <<frames, pc, join, ncall>>

syncvars == <<held, wait, who>>

\* What the embedder's calls on one Memory and one runtime leave alone.
workvars == <<wpc, wstack, wargs, wres, script, ret>>

\* A callee's dealings with its caller's frame.
framevars == <<fr>>

\* The runtime of core/runtime.rs and core/interp.rs.
runvars == <<frame_stack, root, nenv, calls, rlast, engine>>

\* The history of one heap's addresses.
histvars == <<reclaimed>>

\* The producers and consumers of examples/mpmc-shattuck.rs.
mpmcvars == <<queue, idle_workers, idle_hosts, work, sums>>

\* The thread of memory.rs's test simple_share.
peervars == <<peer>>

\* The mark loop of one collection, taken pop by pop.
markvars == <<mark_que>>

\* The SharedMemory of core/shared_memory.rs and its handles.
remotevars == <<objects, object_id, max_count, remotes, poisoned,
                distributed>>

latevars == <<markvars, remotevars>>

restvars == <<histvars, mpmcvars, peervars, latevars>>

callvars == <<framevars, runvars, restvars>>

othervars == <<syncvars, workvars, callvars>>

vars == <<memvars, threadvars, lent, othervars>>

Addr == DOMAIN cells

ArcId == DOMAIN arcs

Range(s) == {s[i] : i \in DOMAIN s}

Min(S) == CHOOSE x \in S : \A y \in S : x <= y

\* ---------------------------------------------------------------- payloads

NoObj == [ty |-> "None", val |-> 0, hold |-> <<>>]

\* struct Int(i32)
IntObj(v) == [ty |-> "Int", val |-> v, hold |-> <<>>]

\* struct Node(Vec<Address>)
NodeObj(hs) == [ty |-> "Node", val |-> 0, hold |-> hs]

\* struct Join(Option<JoinT>)
JoinObj == [ty |-> "Join", val |-> 0, hold |-> <<>>]

\* A Method: the function it runs and its context address.
MethodObj(fn, ctx) == [ty |-> fn, val |-> 0, hold |-> <<ctx>>]

\* A Frame: context, operand stack (bottom first) and parent (None: no parent).
FrameObj(ctx, stack, parent) ==
    [ty |-> "Frame", val |-> parent, hold |-> <<ctx>> \o stack]

MethodTypes == {"Method", "ThreadMethod", "JoinMethod"}

\* GetHoldee for Node: a copy of its vector.
NodeHoldee(obj) == obj.hold

\* GetHoldee for Join: nothing.
JoinHoldee(obj) == <<>>

\* A Method keeps its context alive.
MethodHoldee(obj) == obj.hold

\* A Frame's holdees: its context, every entry of its stack, and its parent.
FrameHoldee(obj) ==
    obj.hold \o (IF obj.val # None THEN <<obj.val>> ELSE <<>>)

\* Object::get_holdee: the holdee function the payload's type was built with.
ObjHoldee(obj) ==
    CASE obj.ty = "Node" -> NodeHoldee(obj)
      [] obj.ty = "Join" -> JoinHoldee(obj)
      [] obj.ty = "Frame" -> FrameHoldee(obj)
      [] obj.ty \in MethodTypes -> MethodHoldee(obj)
      [] OTHER -> <<>>

\* ToSync::to_sync by payload type: Int and Join are their own sync form, a
\* Method has one, a NoSync payload (Node) refuses.
ToSync(obj) ==
    CASE obj.ty = "Int" -> [ok |-> TRUE, obj |-> obj]
      [] obj.ty = "Join" -> [ok |-> TRUE, obj |-> obj]
      [] obj.ty \in MethodTypes -> [ok |-> TRUE, obj |-> obj]
      [] OTHER -> [ok |-> FALSE, obj |-> NoObj]

\* ------------------------------------------------------------------- cells

FreeCell == [alloc |-> FALSE, kind |-> "Free", obj |-> NoObj, arc |-> None,
             mark |-> FALSE, live |-> FALSE]

FreeArc == [rc |-> 0, obj |-> NoObj]

\* A fresh slot that comes with its mark bit set.
StaleMark == TRUE

\* The mark bit Address::new gives a fresh slot.
NewSlotMark == FALSE

\* Address::new(Dual::Local(object))
LocalCell(obj) == [alloc |-> TRUE, kind |-> "Local", obj |-> obj, arc |-> None,
                   mark |-> NewSlotMark, live |-> TRUE]

\* Address::new(Dual::Shared(handle))
SharedCell(id) == [alloc |-> TRUE, kind |-> "Shared", obj |-> NoObj, arc |-> id,
                   mark |-> NewSlotMark, live |-> TRUE]

\* A holdee function that looks through a Shared cell into its payload.
ThroughShared(cell) ==
    IF cell.kind = "Local" THEN ObjHoldee(cell.obj)
    ELSE ObjHoldee(arcs[cell.arc].obj)

\* Dual::get_holdee: a Shared cell reports no holdees.
GetHoldee(cell) ==
    IF cell.kind = "Local" THEN ObjHoldee(cell.obj) ELSE <<>>

Heap == [cells |-> cells, arcs |-> arcs, slots |-> slots, entry |-> entry,
         ub |-> ub]

\* A drop of a handle that frees the content whatever the count.
DropFrees(as, id) == [as EXCEPT ![id] = FreeArc]

\* Dropping one SyncObject handle: the Arc's strong count goes down and the
\* content is freed with the last handle.
DropHandle(as, id) ==
    IF as[id].rc <= 1 THEN [as EXCEPT ![id] = FreeArc]
    ELSE [as EXCEPT ![id].rc = @ - 1]

\* A clone that hands out the handle without counting it.
NoClone(as, id) == as

\* SyncObject::clone
CloneHandle(as, id) == [as EXCEPT ![id].rc = @ + 1]

\* ------------------------------------------------------------ Address ops

\* A release that frees nothing.
NoRelease(h, addr) == h

\* Address::release: Box::from_raw + drop of the slot and of the Dual in it.
\* Releasing storage that is already free is a double free of the slot;
\* dropping a Local payload that was already dropped is one of the payload.
Release(h, addr) ==
    LET cell == h.cells[addr] IN
    IF ~cell.alloc
    THEN [h EXCEPT !.ub = @ \cup {"slot_double_free"}]
    ELSE [h EXCEPT
            !.cells[addr] = FreeCell,
            !.arcs = IF cell.kind = "Shared" THEN DropHandle(@, cell.arc) ELSE @,
            !.ub = IF cell.kind = "Local" /\ ~cell.live
                   THEN @ \cup {"payload_double_free"} ELSE @]

\* Address::mark
Marked(cell) == [cell EXCEPT !.mark = TRUE]

\* An unmark that leaves the bit as it is.
KeepMark(cell) == cell

\* Address::unmark
Unmarked(cell) == [cell EXCEPT !.mark = FALSE]

\* Address::is_marked
IsMarked(cell) == cell.mark

\* The identity of the Arc that SyncObject::new allocates for the payload of
\* the slot at address a: no two live Arcs share one.
FreshArc(as, a) == a

\* The memory of a dropped payload: its vector is gone, the Box that owned
\* it stays in the slot as a dangling pointer (live = FALSE).
DroppedObj(obj) == [obj EXCEPT !.hold = <<>>]

\* Address::share with Dual::into_shared.  ptr::read copies the slot out; a
\* Local payload goes through Object::into_sync, which consumes it.  When
\* to_sync refuses, `?` returns before ptr::write: the payload is gone and the
\* slot keeps the bits of the Local cell that owned it.
Share(h, a) ==
    LET cell == h.cells[a]
        conv == ToSync(cell.obj)
        id   == FreshArc(h.arcs, a)
        u    == IF cell.live THEN h.ub ELSE h.ub \cup {"payload_double_free"}
    IN
    IF cell.kind = "Shared"
    THEN [h |-> [h EXCEPT !.arcs = CloneHandle(@, cell.arc)],
          res |-> "Ok", handle |-> cell.arc]
    ELSE IF conv.ok
    THEN [h |-> [h EXCEPT
                   !.cells[a] = [cell EXCEPT !.kind = "Shared", !.obj = NoObj,
                                             !.arc = id],
                   !.arcs[id] = [rc |-> 2, obj |-> conv.obj],
                   !.ub = u],
          res |-> "Ok", handle |-> id]
    ELSE [h |-> [h EXCEPT
                   !.cells[a] = [cell EXCEPT !.live = FALSE,
                                             !.obj = DroppedObj(@)],
                   !.ub = u],
          res |-> "NotSharable", handle |-> None]

\* What get_ref()?.as_ref::<Int>()?.0 reads through address a.
ReadVal(cs, as, a) ==
    IF cs[a].kind = "Shared" THEN as[cs[a].arc].obj.val ELSE cs[a].obj.val

\* ------------------------------------------------------------- collection

\* A mark phase that marks what is in the queue and follows no holdee.
MarkOnlyRoot(cs, u, que) ==
    IF que = <<>> THEN [cells |-> cs, ub |-> u]
    ELSE [cells |-> [cs EXCEPT ![Head(que)] = Marked(@)], ub |-> u]

\* The mark phase of Memory::collect: pop, mark, enqueue every holdee whose
\* mark bit is not set.  A popped address whose storage is free, or whose
\* Local payload was dropped, is an undefined access; the run that goes on
\* finds no holdees there.
RECURSIVE MarkLoop(_, _, _)
MarkLoop(cs, u, que) ==
    IF que = <<>> THEN [cells |-> cs, ub |-> u]
    ELSE LET addr  == Head(que)
             ok    == cs[addr].alloc
             cs1   == IF ok THEN [cs EXCEPT ![addr] = Marked(@)] ELSE cs
             hs    == IF ok THEN GetHoldee(cs1[addr]) ELSE <<>>
             stale == ~ok \/ (cs1[addr].kind = "Local" /\ ~cs1[addr].live)
             new   == SelectSeq(hs, LAMBDA x : ~IsMarked(cs1[x]))
         IN MarkLoop(cs1, IF stale THEN u \cup {"use_after_free"} ELSE u,
                     Tail(que) \o new)

\* A retain closure that keeps every slot.
KeepAll(cell) == TRUE

\* The decision of the retain closure: keep the marked slots.
Retained(cell) == IsMarked(cell)

\* The sweep phase: slots.retain(..), releasing what is not marked and
\* clearing the mark of what is kept.
RECURSIVE Sweep(_, _, _)
Sweep(h, rest, kept) ==
    IF rest = <<>> THEN [h EXCEPT !.slots = kept]
    ELSE LET addr == Head(rest) IN
         IF Retained(h.cells[addr])
         THEN Sweep([h EXCEPT !.cells[addr] = Unmarked(@)], Tail(rest),
                    Append(kept, addr))
         ELSE Sweep(Release(h, addr), Tail(rest), kept)

\* The queue collect starts from: the entry, when one is set.
Roots(h) == IF h.entry # None THEN <<h.entry>> ELSE <<>>

\* Memory::collect.
Collect(h) ==
    LET m  == MarkLoop(h.cells, h.ub, Roots(h))
        h1 == [h EXCEPT !.cells = m.cells, !.ub = m.ub]
    IN Sweep(h1, h1.slots, <<>>)

\* Memory::n_object
NObject(h) == Len(h.slots)

\* --------------------------------------------------------------- insertion

\* A heap that never finds itself at the cap.
NeverAtCap(h, n) == FALSE

\* The first test of Memory::insert_dual: is the heap at the cap?
AtCap(h, n) == NObject(h) = n

\* The heap after that test: collected when it was at the cap.
AfterCap(h, n) == IF AtCap(h, n) THEN Collect(h) ELSE h

\* An insertion that collects at the cap and then pushes without looking.
InsertUnchecked(h, n, cell, a) ==
    [h |-> [AfterCap(h, n) EXCEPT !.cells[a] = cell, !.slots = Append(@, a)],
     res |-> "Ok", addr |-> a]

\* Memory::insert_dual; `a` is the address Box::new returns.  The dual of a
\* failing insertion is dropped with the call.
InsertDual(h, n, cell, a) ==
    LET h1 == AfterCap(h, n) IN
    IF NObject(h1) = n
    THEN [h |-> h1, res |-> "OutOfMemory", addr |-> None]
    ELSE [h |-> [h1 EXCEPT !.cells[a] = cell, !.slots = Append(@, a)],
          res |-> "Ok", addr |-> a]

\* An allocator that hands out any storage, storage in use included.
AnyStorage(h, n, a) == TRUE

\* Box::new returns storage that is free when it is called: any address free
\* after the collection the insertion may have run.  (A failing insertion
\* allocates nothing; one address stands for all.)
Fresh(h, n, a) ==
    LET h1 == AfterCap(h, n) IN
    IF NObject(h1) = n THEN a = Min(DOMAIN h.cells) ELSE ~h1.cells[a].alloc

\* Drop for Memory: release every slot still in the heap.
RECURSIVE DropAll(_, _)
DropAll(h, rest) ==
    IF rest = <<>> THEN h
    ELSE DropAll(Release(h, Head(rest)), Tail(rest))

\* ------------------------------------------------------- the heap's actions

Running == ~crashed /\ ~dropped

\* The heap an operation starts from; its ub field then tells whether this
\* operation made an undefined access.
Heap0 == [Heap EXCEPT !.ub = {}]

\* What the last call was and what it returned.  a: the address an insertion
\* returned or a promotion or borrow was applied to; handle: the handle a
\* promotion returned; pre: the kind of the cell a promotion found; freed: the
\* number of slots the call released ("collected {} objects").
Op(op, res) == [op |-> op, res |-> res, a |-> None, handle |-> None,
                pre |-> "", freed |-> 0]

\* An aborted process has no heap left.
Gone ==
    /\ cells' = [a \in Addr |-> FreeCell]
    /\ arcs' = [i \in ArcId |-> FreeArc]
    /\ slots' = <<>>
    /\ entry' = None

\* The operation completes with heap h1; one that made an undefined access
\* may instead have been aborted.
Complete(h1, l) ==
    \/ /\ cells' = h1.cells
       /\ arcs' = h1.arcs
       /\ slots' = h1.slots
       /\ entry' = h1.entry
       /\ ub' = h1.ub
       /\ last' = l
       /\ UNCHANGED crashed
    \/ /\ h1.ub # {}
       /\ crashed' = TRUE
       /\ ub' = h1.ub
       /\ last' = Op("abort", "Aborted")
       /\ Gone

\* The record of an insertion that returned r from a heap of n0 slots.
Inserted(r, n0) ==
    [Op("insert", r.res) EXCEPT
        !.a = r.addr,
        !.freed = IF r.res = "Ok" THEN n0 + 1 - NObject(r.h)
                  ELSE n0 - NObject(r.h)]

\* memory.insert_local(Object::new(..)) of an Int or of an empty Node.
InsertLocal(obj, a) ==
    LET r == InsertDual(Heap0, nmax, LocalCell(obj), a) IN
    /\ Running
    /\ Fresh(Heap0, nmax, a)
    /\ Complete(r.h, Inserted(r, Len(slots)))
    /\ UNCHANGED <<nmax, dropped, threadvars, lent, othervars>>

\* memory.insert_shared(SyncObject::new(Int(v))): the Arc comes with the
\* handle and lives on in the slot when the insertion succeeds.
InsertShared(v, a) ==
    LET id == FreshArc(arcs, a)
        r  == InsertDual(Heap0, nmax, SharedCell(id), a)
    IN
    /\ Running
    /\ Fresh(Heap0, nmax, a)
    /\ Complete(IF r.res = "Ok"
                THEN [r.h EXCEPT !.arcs[id] = [rc |-> 1, obj |-> IntObj(v)]]
                ELSE r.h,
                Inserted(r, Len(slots)))
    /\ UNCHANGED <<nmax, dropped, threadvars, lent, othervars>>

\* The addresses held by the Node payloads of the heap, all together.
RECURSIVE TotalHeld(_, _)
TotalHeld(cs, rest) ==
    IF rest = <<>> THEN 0
    ELSE Len(GetHoldee(cs[Head(rest)])) + TotalHeld(cs, Tail(rest))

\* holder.get_mut()?.as_mut::<Node>()?.0.push(holdee)
Hold(holder, holdee) ==
    /\ Running
    /\ holder \in Range(slots) /\ holdee \in Range(slots)
    /\ cells[holder].kind = "Local" /\ cells[holder].live
    /\ cells[holder].obj.ty = "Node"
    /\ TotalHeld(cells, slots) < MaxHold
    /\ Complete([Heap0 EXCEPT !.cells[holder].obj.hold = Append(@, holdee)],
                Op("other", "Ok"))
    /\ UNCHANGED <<nmax, dropped, threadvars, lent, othervars>>

\* Memory::set_entry.
SetEntry(a) ==
    /\ Running
    /\ a \in Range(slots)
    /\ Complete([Heap0 EXCEPT !.entry = a], Op("other", "Ok"))
    /\ UNCHANGED <<nmax, dropped, threadvars, lent, othervars>>

\* memory.collect()
DoCollect ==
    LET h1 == Collect(Heap0) IN
    /\ Running
    /\ Complete(h1, [Op("collect", "Ok") EXCEPT
                        !.freed = Len(slots) - NObject(h1)])
    /\ UNCHANGED <<nmax, dropped, threadvars, lent, othervars>>

\* addr.share(), the handle returned being dropped at once.
DoShare(a) ==
    LET r  == Share(Heap0, a)
        h1 == IF r.res = "Ok"
              THEN [r.h EXCEPT !.arcs = DropHandle(@, r.handle)] ELSE r.h
    IN
    /\ Running
    /\ a \in Range(slots)
    /\ Complete(h1, [Op("share", r.res) EXCEPT
                        !.a = a, !.handle = r.handle, !.pre = cells[a].kind])
    /\ UNCHANGED <<nmax, dropped, threadvars, lent, othervars>>

\* The Memory goes out of scope: every slot still in the heap is released.
DropMemory ==
    LET h1 == DropAll(Heap0, slots) IN
    /\ Running
    /\ dropped' = TRUE
    /\ Complete([h1 EXCEPT !.slots = <<>>, !.entry = None],
                [Op("drop", "Ok") EXCEPT !.freed = Len(slots)])
    /\ UNCHANGED <<nmax, threadvars, lent, othervars>>

Payloads == {IntObj(v) : v \in Values} \cup {NodeObj(<<>>)}

\* The address space of a heap of capacity n: the storage its slots can take.
Space(n) == 1..(IF n = 0 THEN 1 ELSE n)

\* Memory::new(n_slots_max)
NewMemory(n) ==
    /\ nmax = n
    /\ cells = [a \in Space(n) |-> FreeCell]
    /\ arcs = [i \in Space(n) |-> FreeArc]
    /\ slots = <<>>
    /\ entry = None
    /\ ub = {}
    /\ crashed = FALSE
    /\ dropped = FALSE

NoThread ==
    /\ frames = <<>>
    /\ pc = "none"
    /\ join = None
    /\ ncall = 0

\* No second thread: nothing is held on any lock and nothing waits.
NoSync ==
    /\ held = <<>>
    /\ wait = <<>>
    /\ who = None

\* No worker was spawned.
NoWorker ==
    /\ wpc = "none"
    /\ wstack = <<>>
    /\ wargs = [method |-> None, ctx |-> None, args |-> <<>>, given |-> <<>>]
    /\ wres = [res |-> "", handles |-> <<>>]
    /\ script = [method |-> None, nres |-> 0, body |-> ""]
    /\ ret = 0

\* No collection has released anything yet.
NoHist == reclaimed = {}

\* The example's queue and threads do not exist.
NoMpmc ==
    /\ queue = <<>>
    /\ idle_workers = <<>>
    /\ idle_hosts = <<>>
    /\ work = <<>>
    /\ sums = <<>>

\* No second thread with a heap of its own.
NoPeer == peer = <<>>

\* No collection is taken pop by pop.
NoMark == mark_que = <<>>

\* No SharedMemory exists.
NoRemote ==
    /\ objects = <<>>
    /\ object_id = 0
    /\ max_count = 0
    /\ remotes = <<>>
    /\ poisoned = FALSE
    /\ distributed = {}

NoRest == NoHist /\ NoMpmc /\ NoPeer /\ NoMark /\ NoRemote

\* No call of a method is under way and no runtime of core/runtime.rs exists.
NoRun ==
    /\ fr = [pushed |-> <<>>, handed |-> <<>>, ops |-> <<>>, stack0 |-> <<>>,
             callee |-> None]
    /\ frame_stack = <<>>
    /\ root = None
    /\ nenv = 0
    /\ calls = <<>>
    /\ rlast = [res |-> "", depth0 |-> 0, root0 |-> None, size0 |-> 0]
    /\ engine = ""

NoCall == NoRest /\ NoRun

Init ==
    /\ \E n \in 0..MaxCap : NewMemory(n)
    /\ last = Op("new", "Ok")
    /\ NoThread
    /\ lent = <<>>
    /\ NoSync
    /\ NoWorker
    /\ NoCall

Next ==
    \/ \E obj \in Payloads, a \in Addr : InsertLocal(obj, a)
    \/ \E v \in Values, a \in Addr : InsertShared(v, a)
    \/ \E x \in Addr, y \in Addr : Hold(x, y)
    \/ \E a \in Addr : SetEntry(a)
    \/ DoCollect
    \/ \E a \in Addr : DoShare(a)
    \/ DropMemory

Spec == Init /\ [][Next]_vars

\* ------------------------------------------------------ frames of a runtime

\* The current frame: the top of the runtime's frame stack.
Top == frames[Len(frames)]

FrameContext(h, f) == Head(h.cells[f].obj.hold)

FrameStack(h, f) == Tail(h.cells[f].obj.hold)

FrameParent(h, f) == h.cells[f].obj.val

\* runtime.push(addr)
Push(h, f, x) == [h EXCEPT !.cells[f].obj.hold = Append(@, x)]

\* runtime.pop()
Pop(h, f) == [h EXCEPT !.cells[f].obj.hold = SubSeq(@, 1, Len(@) - 1)]

\* An index counted from the bottom of the stack.
GetFromBottom(h, f, i) == FrameStack(h, f)[i]

\* runtime.get(i), 1-based from the top.
Get(h, f, i) == LET s == FrameStack(h, f) IN s[Len(s) + 1 - i]

\* A push_parent that takes the address off the callee's stack.
PushParentMoves(h, f, i) == Pop(Push(h, FrameParent(h, f), Get(h, f, i)), f)

\* runtime.push_parent(i)
PushParent(h, f, i) == Push(h, FrameParent(h, f), Get(h, f, i))

\* A step of the runtime completes: the heap as Complete leaves it and the
\* runtime's own fields; an aborted process has none.
Step(h1, l, fs, p, j, n) ==
    /\ Complete(h1, l)
    /\ frames' = IF crashed' THEN <<>> ELSE fs
    /\ pc' = IF crashed' THEN "aborted" ELSE p
    /\ join' = IF crashed' THEN None ELSE j
    /\ ncall' = IF crashed' THEN 0 ELSE n
    /\ UNCHANGED <<nmax, dropped, lent, othervars>>

\* The embedder's code between calls: it works on the initial frame and
\* keeps at most a method and its arguments on the operand stack.
Idle ==
    /\ Running /\ pc = "idle"

Room == Len(FrameStack(Heap0, Top)) <= MaxArgs

\* let x = runtime.memory.insert_local(Object::new(..))?; runtime.push(x)
PushNew(obj, a) ==
    LET r == InsertDual(Heap0, nmax, LocalCell(obj), a) IN
    /\ Idle /\ Room
    /\ Fresh(Heap0, nmax, a)
    /\ Step(IF r.res = "Ok" THEN Push(r.h, Top, a) ELSE r.h,
            Inserted(r, Len(slots)), frames, pc, join, ncall)

\* let t = runtime.memory.insert_local(Object::new(make_thread(m)))?;
\* runtime.push(t): the thread method is a Method whose context is m.
MakeThread(m, a) ==
    LET r == InsertDual(Heap0, nmax, LocalCell(MethodObj("ThreadMethod", m)), a)
    IN
    /\ Idle /\ Room
    /\ m \in Range(cells[Top].obj.hold)
    /\ cells[m].obj.ty \in {"Int", "Node"} \/ cells[m].kind = "Shared"
    /\ Fresh(Heap0, nmax, a)
    /\ Step(IF r.res = "Ok" THEN Push(r.h, Top, a) ELSE r.h,
            Inserted(r, Len(slots)), frames, pc, join, ncall)

\* runtime.pop()?
PopTop ==
    /\ Idle
    /\ FrameStack(Heap0, Top) # <<>>
    /\ Step(Pop(Heap0, Top), Op("other", "Ok"), frames, pc, join, ncall)

\* runtime.call(method, &[1..=n]) up to the invocation of the method's
\* function: the method is the entry under the n arguments; a new Frame with
\* the method's context, the arguments and the current frame as parent is
\* inserted, pushed on the frame stack and made the entry.
Call(n, a) ==
    LET method == Get(Heap0, Top, n + 1)
        args   == [i \in 1..n |-> Get(Heap0, Top, i)]
        frame  == FrameObj(Head(cells[method].obj.hold), args, Top)
        r      == InsertDual(Heap0, nmax, LocalCell(frame), a)
    IN
    /\ Idle /\ ncall < MaxCalls
    /\ Len(FrameStack(Heap0, Top)) >= n + 1
    /\ cells[method].kind = "Local" /\ cells[method].obj.ty = "ThreadMethod"
    /\ Fresh(Heap0, nmax, a)
    /\ IF r.res = "Ok"
       THEN Step([r.h EXCEPT !.entry = a], Op("enter", "Ok"),
                 Append(frames, a), "share", join, ncall)
       ELSE Step(r.h, Op("call", r.res), frames, pc, join, ncall + 1)

\* while let Ok(mut address) = runtime.get(1) { runtime.pop()?;
\*     args.push(address.share()?); }
RECURSIVE ShareArgs(_, _)
ShareArgs(h, f) ==
    IF FrameStack(h, f) = <<>> THEN [h |-> h, res |-> "Ok"]
    ELSE LET r == Share(Pop(h, f), Get(h, f, 1)) IN
         IF r.res = "Ok" THEN ShareArgs(r.h, f) ELSE [h |-> r.h, res |-> r.res]

\* A closure that goes on to spawn whatever the promotions returned.
ShareAllSpawns ==
    LET r0 == Share(Heap0, FrameContext(Heap0, Top))
        r  == IF r0.res = "Ok" THEN ShareArgs(r0.h, Top)
              ELSE [h |-> r0.h, res |-> r0.res]
    IN
    /\ Running /\ pc = "share"
    /\ Step(r.h, Op("body", r.res), frames, "spawn", join, ncall)

\* make_thread's closure, lines 13-18: promote the context, then pop and
\* promote every argument; the handles go to the worker.
ShareAll ==
    LET r0 == Share(Heap0, FrameContext(Heap0, Top))
        r  == IF r0.res = "Ok" THEN ShareArgs(r0.h, Top)
              ELSE [h |-> r0.h, res |-> r0.res]
    IN
    /\ Running /\ pc = "share"
    /\ Step(r.h, Op("body", r.res), frames,
            IF r.res = "Ok" THEN "spawn" ELSE "return", join, ncall)

\* Lines 19-39: spawn the worker and insert the Join that owns its handle.
SpawnJoin(a) ==
    LET r == InsertDual(Heap0, nmax, LocalCell(JoinObj), a) IN
    /\ Running /\ pc = "spawn"
    /\ Fresh(Heap0, nmax, a)
    /\ Step(r.h, [Op("body", r.res) EXCEPT !.freed = Inserted(r, Len(slots)).freed],
            frames, IF r.res = "Ok" THEN "join" ELSE "return", r.addr, ncall)

\* Lines 40-43: insert the join method, whose context is the address in
\* `join`, push it and hand it to the parent frame.
InsertJoinMethod(a) ==
    LET r == InsertDual(Heap0, nmax, LocalCell(MethodObj("JoinMethod", join)), a)
    IN
    /\ Running /\ pc = "join"
    /\ Fresh(Heap0, nmax, a)
    /\ Step(IF r.res = "Ok" THEN PushParent(Push(r.h, Top, a), Top, 1) ELSE r.h,
            [Op("body", r.res) EXCEPT !.freed = Inserted(r, Len(slots)).freed],
            frames, "return", None, ncall)

\* The end of runtime.call: the frame stack is popped, the entry goes back
\* to the caller's frame, the body's result is the call's.
Return ==
    LET fs == SubSeq(frames, 1, Len(frames) - 1) IN
    /\ Running /\ pc = "return"
    /\ Step([Heap0 EXCEPT !.entry = fs[Len(fs)]],
            [Op("call", last.res) EXCEPT !.freed = last.freed],
            fs, "idle", None, ncall + 1)

\* What the embedder pushes: Ints, empty Nodes.
ThreadPayloads == {IntObj(42), NodeObj(<<>>)}

\* A booted runtime: Memory::new(n), the initial context inserted, the
\* initial Frame (no parent) inserted, made the entry and pushed on the frame
\* stack.
InitThread ==
    /\ \E n \in 2..ThreadCap :
          /\ nmax = n
          /\ cells = [a \in 1..n |->
                        CASE a = 1 -> LocalCell(IntObj(42))
                          [] a = 2 -> LocalCell(FrameObj(1, <<>>, None))
                          [] OTHER -> FreeCell]
          /\ arcs = [i \in 1..n |-> FreeArc]
    /\ slots = <<1, 2>>
    /\ entry = 2
    /\ ub = {}
    /\ crashed = FALSE
    /\ dropped = FALSE
    /\ last = Op("boot", "Ok")
    /\ frames = <<2>>
    /\ pc = "idle"
    /\ join = None
    /\ ncall = 0
    /\ lent = <<>>
    /\ NoSync
    /\ NoWorker
    /\ NoCall

NextThread ==
    \/ \E obj \in ThreadPayloads, a \in Addr : PushNew(obj, a)
    \/ \E m \in Addr, a \in Addr : MakeThread(m, a)
    \/ PopTop
    \/ \E n \in 0..MaxArgs, a \in Addr : Call(n, a)
    \/ ShareAll
    \/ \E a \in Addr : SpawnJoin(a)
    \/ \E a \in Addr : InsertJoinMethod(a)
    \/ Return

SpecThread == InitThread /\ [][NextThread]_vars

\* ------------------------------------------------- borrows through copies

Copies == 1..NCopy

NoLoan == [refs |-> 0, mut |-> FALSE]

\* Is a Ref, is a Mut, alive for the slot at address a?
HasRef(a) == \E c \in Copies : lent[a][c].refs > 0

HasMut(a) == \E c \in Copies : lent[a][c].mut

\* RwLock::try_read: refused while a writer holds the lock.
TryRead(a) == IF HasMut(a) THEN "ViolateSync" ELSE "Ok"

\* RwLock::try_write: refused while a reader or a writer holds the lock.
TryWrite(a) == IF HasRef(a) \/ HasMut(a) THEN "ViolateSync" ELSE "Ok"

\* Dual::get_ref: a Local cell hands out &Object, a Shared cell asks the lock.
DualGetRef(a) == IF cells[a].kind = "Local" THEN "Ok" ELSE TryRead(a)

\* Dual::get_mut: a Local cell hands out &mut Object, a Shared cell asks the
\* lock.
DualGetMut(a) == IF cells[a].kind = "Local" THEN "Ok" ELSE TryWrite(a)

Borrowed(op, a, res) == [Op(op, res) EXCEPT !.a = a, !.pre = cells[a].kind]

\* copy.get_ref(): the compiler allows it while no Mut borrowed through the
\* same copy is alive.
GetRef(a, c) ==
    LET res == DualGetRef(a) IN
    /\ Running /\ a \in Range(slots)
    /\ ~lent[a][c].mut /\ lent[a][c].refs < MaxBorrow
    /\ lent' = IF res = "Ok" THEN [lent EXCEPT ![a][c].refs = @ + 1] ELSE lent
    /\ last' = Borrowed("get_ref", a, res)
    /\ UNCHANGED <<cells, arcs, slots, entry, nmax, ub, crashed, dropped,
                   threadvars, othervars>>

\* copy.get_mut(): the compiler allows it while nothing borrowed through the
\* same copy is alive.
GetMut(a, c) ==
    LET res == DualGetMut(a) IN
    /\ Running /\ a \in Range(slots)
    /\ lent[a][c] = NoLoan
    /\ lent' = IF res = "Ok" THEN [lent EXCEPT ![a][c].mut = TRUE] ELSE lent
    /\ last' = Borrowed("get_mut", a, res)
    /\ UNCHANGED <<cells, arcs, slots, entry, nmax, ub, crashed, dropped,
                   threadvars, othervars>>

\* A DualRef goes out of scope.
DropRef(a, c) ==
    /\ Running /\ a \in Range(slots)
    /\ lent[a][c].refs > 0
    /\ lent' = [lent EXCEPT ![a][c].refs = @ - 1]
    /\ last' = Borrowed("drop_ref", a, "Ok")
    /\ UNCHANGED <<cells, arcs, slots, entry, nmax, ub, crashed, dropped,
                   threadvars, othervars>>

\* A DualMut goes out of scope.
DropMut(a, c) ==
    /\ Running /\ a \in Range(slots)
    /\ lent[a][c].mut
    /\ lent' = [lent EXCEPT ![a][c].mut = FALSE]
    /\ last' = Borrowed("drop_mut", a, "Ok")
    /\ UNCHANGED <<cells, arcs, slots, entry, nmax, ub, crashed, dropped,
                   threadvars, othervars>>

\* A heap of MaxCap slots, each inserted Local or Shared, no borrow alive.
InitBorrow ==
    /\ nmax = MaxCap
    /\ \E shared \in SUBSET (1..MaxCap) :
          /\ cells = [a \in 1..MaxCap |->
                        IF a \in shared THEN SharedCell(FreshArc(<<>>, a))
                        ELSE LocalCell(IntObj(42))]
          /\ arcs = [i \in 1..MaxCap |->
                        IF i \in shared THEN [rc |-> 1, obj |-> IntObj(42)]
                        ELSE FreeArc]
    /\ slots = [i \in 1..MaxCap |-> i]
    /\ entry = None
    /\ ub = {}
    /\ crashed = FALSE
    /\ dropped = FALSE
    /\ last = Op("new", "Ok")
    /\ NoThread
    /\ lent = [a \in 1..MaxCap |-> [c \in Copies |-> NoLoan]]
    /\ NoSync
    /\ NoWorker
    /\ NoCall

NextBorrow ==
    \/ \E a \in Addr, c \in Copies : GetRef(a, c)
    \/ \E a \in Addr, c \in Copies : GetMut(a, c)
    \/ \E a \in Addr, c \in Copies : DropRef(a, c)
    \/ \E a \in Addr, c \in Copies : DropMut(a, c)

SpecBorrow == InitBorrow /\ [][NextBorrow]_vars

\* ------------------------------------------- accessors under several threads

\* Threads that hold a handle to the Shared payloads (bound).
NThread == 2

Threads == 1..NThread

\* The thread that owns the heap: the only one that reaches its Local slots.
Owner == Min(Threads)

NoGuard == [ref |-> FALSE, mut |-> FALSE]

NoWait == [op |-> "", a |-> None]

\* Does some thread hold the write guard, a read guard, of the lock of arc id?
Writer(id) == \E t \in Threads : held[id][t].mut

Reader(id) == \E t \in Threads : held[id][t].ref

\* A get_ref that hands out a guard whatever the lock's state.
ReadAnyway(id) == "Ok"

\* SyncObject::get_ref: content.try_read().map_err(|_| ViolateSync).
SyncGetRef(id) == IF Writer(id) THEN "ViolateSync" ELSE "Ok"

\* SyncObject::get_mut: content.try_write().map_err(|_| ViolateSync).
SyncGetMut(id) == IF Writer(id) \/ Reader(id) THEN "ViolateSync" ELSE "Ok"

\* SyncObject::sync_ref returns once a read lock can be taken.
CanRead(id) == ~Writer(id)

\* SyncObject::sync_mut returns once the write lock can be taken.
CanWrite(id) == ~Writer(id) /\ ~Reader(id)

\* A blocking accessor that refuses a Local cell.
PanicOnLocal(kind) == IF kind = "Local" THEN "Panic" ELSE "Wait"

\* Dual::sync_ref and Dual::sync_mut: a Local cell hands out its reference
\* at once, a Shared cell goes to the lock.
DualSync(kind) == IF kind = "Local" THEN "Ok" ELSE "Wait"

\* Thread t may call an accessor of the slot at a.
MayCall(t, a) ==
    /\ Running /\ a \in Range(slots)
    /\ wait[t] = NoWait
    /\ cells[a].kind = "Local" => t = Owner

\* The heap is left alone by the accessors.
SyncFrame ==
    UNCHANGED <<cells, arcs, slots, entry, nmax, ub, crashed, dropped,
                threadvars, lent, workvars, callvars>>

\* address.get_ref() called by thread t.
ThreadGetRef(t, a) ==
    LET id  == cells[a].arc
        res == IF cells[a].kind = "Local" THEN "Ok" ELSE SyncGetRef(id)
    IN
    /\ MayCall(t, a)
    /\ cells[a].kind = "Shared" => ~held[id][t].ref
    /\ held' = IF cells[a].kind = "Shared" /\ res = "Ok"
               THEN [held EXCEPT ![id][t].ref = TRUE] ELSE held
    /\ last' = Borrowed("get_ref", a, res)
    /\ who' = t
    /\ UNCHANGED wait
    /\ SyncFrame

\* address.get_mut() called by thread t.
ThreadGetMut(t, a) ==
    LET id  == cells[a].arc
        res == IF cells[a].kind = "Local" THEN "Ok" ELSE SyncGetMut(id)
    IN
    /\ MayCall(t, a)
    /\ held' = IF cells[a].kind = "Shared" /\ res = "Ok"
               THEN [held EXCEPT ![id][t].mut = TRUE] ELSE held
    /\ last' = Borrowed("get_mut", a, res)
    /\ who' = t
    /\ UNCHANGED wait
    /\ SyncFrame

\* address.sync_ref() or address.sync_mut() called by thread t: on a Shared
\* cell the thread waits in the lock.
ThreadSync(t, a, op) ==
    LET res == DualSync(cells[a].kind) IN
    /\ MayCall(t, a)
    /\ wait' = IF res = "Wait" THEN [wait EXCEPT ![t] = [op |-> op, a |-> a]]
               ELSE wait
    /\ last' = Borrowed(op, a, res)
    /\ who' = t
    /\ UNCHANGED held
    /\ SyncFrame

\* The lock lets the waiting thread t in and its call returns the guard.
Acquire(t) ==
    LET a  == wait[t].a
        id == cells[a].arc
    IN
    /\ Running /\ wait[t] # NoWait
    /\ IF wait[t].op = "sync_ref" THEN CanRead(id) ELSE CanWrite(id)
    /\ ~held[id][t].ref
    /\ held' = IF wait[t].op = "sync_ref"
               THEN [held EXCEPT ![id][t].ref = TRUE]
               ELSE [held EXCEPT ![id][t].mut = TRUE]
    /\ wait' = [wait EXCEPT ![t] = NoWait]
    /\ last' = Borrowed("acquire", a, "Ok")
    /\ who' = t
    /\ SyncFrame

\* Thread t drops a guard it holds on the Shared slot at a.
ThreadDrop(t, a) ==
    LET id == cells[a].arc IN
    /\ Running /\ a \in Range(slots) /\ cells[a].kind = "Shared"
    /\ wait[t] = NoWait
    /\ held[id][t] # NoGuard
    /\ held' = [held EXCEPT ![id][t] =
                  IF @.mut THEN [@ EXCEPT !.mut = FALSE]
                  ELSE [@ EXCEPT !.ref = FALSE]]
    /\ last' = Borrowed("drop_guard", a, "Ok")
    /\ who' = t
    /\ UNCHANGED wait
    /\ SyncFrame

\* The slots of the heap the threads work on: one Local, one Shared.
SyncSlots == <<"Local", "Shared">>

InitSync ==
    /\ nmax = Len(SyncSlots)
    /\ cells = [a \in DOMAIN SyncSlots |->
                  IF SyncSlots[a] = "Shared" THEN SharedCell(FreshArc(<<>>, a))
                  ELSE LocalCell(IntObj(42))]
    /\ arcs = [i \in DOMAIN SyncSlots |->
                  IF SyncSlots[i] = "Shared" THEN [rc |-> NThread, obj |-> IntObj(42)]
                  ELSE FreeArc]
    /\ slots = [i \in DOMAIN SyncSlots |-> i]
    /\ entry = None
    /\ ub = {}
    /\ crashed = FALSE
    /\ dropped = FALSE
    /\ last = Op("new", "Ok")
    /\ NoThread
    /\ lent = <<>>
    /\ held = [i \in DOMAIN SyncSlots |-> [t \in Threads |-> NoGuard]]
    /\ wait = [t \in Threads |-> NoWait]
    /\ who = None
    /\ NoWorker
    /\ NoCall

NextSync ==
    \/ \E t \in Threads, a \in Addr : ThreadGetRef(t, a)
    \/ \E t \in Threads, a \in Addr : ThreadGetMut(t, a)
    \/ \E t \in Threads, a \in Addr : ThreadSync(t, a, "sync_ref")
    \/ \E t \in Threads, a \in Addr : ThreadSync(t, a, "sync_mut")
    \/ \E t \in Threads : Acquire(t)
    \/ \E t \in Threads, a \in Addr : ThreadDrop(t, a)

SpecSync == InitSync /\ [][NextSync]_vars

\* ---------------------------------------------- a worker thread and its join

\* Most arguments the thread method is called with (bound).
NArg == 2

\* Most results the worker's method hands up (bound).
NRes == 2

\* Memory::new(16) of examples/main.rs.
MainCap == 16

\* The thread that runs main and the worker it spawns.
MainThread == Owner

Worker == Owner + 1

\* Join(None): the handle was taken out of the Join.
JoinNone == [JoinObj EXCEPT !.ty = "JoinNone"]

\* Box::new on a heap that is not full: the first free storage.
Alloc(h) == Min({a \in DOMAIN h.cells : ~h.cells[a].alloc})

\* The Arc of the k-th SyncObject::new the worker's method makes.
WorkerArc(k) == MainCap + k

\* DualMut::as_mut::<Int>()?.0 = v through address a.
WriteVal(h, a, v) ==
    IF h.cells[a].kind = "Shared"
    THEN [h EXCEPT !.arcs[h.cells[a].arc].obj.val = v]
    ELSE [h EXCEPT !.cells[a].obj.val = v]

\* Promotion of the slot at a; a Method's sync form carries a handle to its
\* context, which is promoted with it.
ShareDeep(h, a) ==
    LET cell == h.cells[a]
        r0   == Share(h, Head(cell.obj.hold))
    IN
    IF cell.kind = "Local" /\ cell.obj.ty \in MethodTypes
    THEN IF r0.res = "Ok"
         THEN Share(r0.h, a)
         ELSE r0
    ELSE Share(h, a)

\* The arc of the context a shared Method carries.
MethodContextArc(h, id) == h.cells[Head(h.arcs[id].obj.hold)].arc

\* A call that takes the addresses its indices name off the caller's stack.
CallFrameTakes(h, f, m, n) ==
    InsertDual([h EXCEPT !.cells[f].obj.hold =
                            SubSeq(@, 1, Len(@) - n)],
               nmax,
               LocalCell(FrameObj(Head(h.cells[m].obj.hold),
                                  [i \in 1..n |-> Get(h, f, i)], f)),
               Alloc(h))

\* Steps 4-5 of runtime.call(m, [1..n]) from frame f: the callee's Frame
\* gets the context of the method, the addresses the indices name and f as
\* parent, and is inserted.
CallFrame(h, f, m, n) ==
    InsertDual(h, nmax,
               LocalCell(FrameObj(Head(h.cells[m].obj.hold),
                                  [i \in 1..n |-> Get(h, f, i)], f)),
               Alloc(h))

\* The method of examples/main.rs, this += x, run in frame f.
IncBody(h, f) ==
    LET c == FrameContext(h, f) IN
    IF FrameStack(h, f) = <<>> THEN [h |-> h, res |-> "ExhaustedFrame"]
    ELSE [h |-> WriteVal(h, c, ReadVal(h.cells, h.arcs, c)
                               + ReadVal(h.cells, h.arcs, Get(h, f, 1))),
          res |-> "Ok"]

\* A vector read back to front.
Reverse(s) == [i \in 1..Len(s) |-> s[Len(s) + 1 - i]]

\* A loop that moves the addresses themselves into the worker, unpromoted.
MoveAddresses(h, f, args) ==
    [h |-> [h EXCEPT !.cells[f].obj.hold = <<Head(@)>>], res |-> "Ok",
     args |-> args \o Reverse(FrameStack(h, f))]

\* while let Ok(mut address) = runtime.get(1) { runtime.pop()?;
\*     args.push(address.share()?); }  with the vector it fills.
RECURSIVE ShareLoop(_, _, _)
ShareLoop(h, f, args) ==
    IF FrameStack(h, f) = <<>> THEN [h |-> h, res |-> "Ok", args |-> args]
    ELSE LET r == Share(Pop(h, f), Get(h, f, 1)) IN
         IF r.res = "Ok" THEN ShareLoop(r.h, f, Append(args, r.handle))
         ELSE [h |-> r.h, res |-> r.res, args |-> args]

\* insert_local(x)?; runtime.push(x); runtime.push_parent(1)? in frame f.
HandUp(h, f, cell) ==
    LET r == InsertDual(h, nmax, cell, Alloc(h)) IN
    IF r.res = "Ok"
    THEN [h |-> PushParent(Push(r.h, f, r.addr), f, 1), res |-> "Ok"]
    ELSE [h |-> r.h, res |-> r.res]

\* The closure of make_thread run in frame f: what it leaves in the heap,
\* its result and what it moved into the worker.
ThreadBody(h, f) ==
    LET r0 == ShareDeep(h, FrameContext(h, f))
        r1 == ShareLoop(r0.h, f, <<>>)
        j  == InsertDual(r1.h, nmax, LocalCell(JoinObj), Alloc(r1.h))
        r2 == HandUp(j.h, f, LocalCell(MethodObj("JoinMethod", j.addr)))
        no == [method |-> None, ctx |-> None, args |-> <<>>,
               given |-> FrameStack(h, f)]
    IN
    IF r0.res # "Ok" THEN [h |-> r0.h, res |-> r0.res, moved |-> no]
    ELSE IF r1.res # "Ok" THEN [h |-> r1.h, res |-> r1.res, moved |-> no]
    ELSE [h |-> IF j.res = "Ok" THEN r2.h ELSE j.h,
          res |-> IF j.res = "Ok" THEN r2.res ELSE j.res,
          moved |-> [method |-> r0.handle,
                     ctx |-> MethodContextArc(r0.h, r0.handle),
                     args |-> r1.args,
                     given |-> FrameStack(h, f)]]

\* The worker pushes the handles in the order of the vector.
NoRev(args) == args

\* for arg in args.into_iter().rev() { insert_shared(arg)?; push(..) }: the
\* worker's initial frame, bottom first.
WorkerFrame(args) == Reverse(args)

\* The join method inserts the results in the order of the vector.
ResultsAsPopped(results) == results

\* for result_object in results.into_iter().rev(): the order the join method
\* inserts the results in.
ResultOrder(results) == Reverse(results)

\* for .. { insert_shared(result_object)?; push(result); push_parent(1)? }
RECURSIVE InsertResults(_, _, _)
InsertResults(h, f, hs) ==
    IF hs = <<>> THEN [h |-> h, res |-> "Ok"]
    ELSE LET r == HandUp(h, f, SharedCell(Head(hs))) IN
         IF r.res = "Ok" THEN InsertResults(r.h, f, Tail(hs)) ELSE r

\* The end of runtime.call from frame f of the caller, whose stack held len0
\* addresses at the call: the entry goes back to f.
Returned(h, f) == [h EXCEPT !.entry = f]

\* A step of main; a panic unwinds main and ends the process.
MainStep(h, l, fs, p, j) ==
    /\ cells' = h.cells /\ arcs' = h.arcs /\ slots' = h.slots
    /\ entry' = h.entry /\ ub' = h.ub
    /\ last' = l
    /\ frames' = fs /\ pc' = p /\ join' = j
    /\ UNCHANGED <<nmax, crashed, dropped, ncall, lent, wait, who, script,
                    callvars>>

\* runtime.call(method, &[1..n]).unwrap(): the direct increment.
DirectCall ==
    /\ Running /\ pc = "start"
    /\ \E r \in {CallFrame(Heap0, Top, script.method,
                            Len(FrameStack(Heap0, Top)))} :
       \E b \in {IF r.res = "Ok" THEN IncBody(r.h, r.addr)
                 ELSE [h |-> r.h, res |-> r.res]} :
          MainStep(Returned(b.h, Top), Op("call", b.res),
                   frames, "called", join)
    /\ ret' = 0
    /\ UNCHANGED <<held, wpc, wstack, wargs, wres>>

\* runtime.call(thread, &[1..n]) from frame f: the frame of the call and the
\* closure of make_thread run in it.
ThreadCalled(h, f, thread) ==
    LET r == CallFrame(h, f, thread, Len(FrameStack(h, f))) IN
    IF r.res = "Ok" THEN ThreadBody(r.h, r.addr)
    ELSE [h |-> r.h, res |-> r.res, moved |-> wargs]

\* let thread = insert_local(Object::new(make_thread(method))).unwrap();
\* runtime.call(thread, &[1..n]).unwrap(); let join = runtime.get(1).unwrap();
ThreadCall ==
    /\ Running /\ pc = "called"
    /\ \E t \in {InsertDual(Heap0, nmax,
                             LocalCell(MethodObj("ThreadMethod",
                                                 script.method)),
                             Alloc(Heap0))} :
       \E b \in {IF t.res = "Ok"
                 THEN ThreadCalled(t.h, Top, t.addr)
                 ELSE [h |-> t.h, res |-> t.res, moved |-> wargs]} :
       \E h1 \in {Returned(b.h, Top)} :
          /\ MainStep(h1, Op("call", b.res), frames,
                      IF b.res = "Ok" THEN "spawned" ELSE "failed",
                      IF b.res = "Ok" THEN Get(h1, Top, 1) ELSE None)
          /\ ret' = Len(FrameStack(h1, Top)) - Len(FrameStack(Heap0, Top))
          /\ wpc' = IF b.moved.method # None THEN "boot" ELSE wpc
          /\ wargs' = b.moved
    /\ UNCHANGED <<held, wstack, wres>>

\* runtime.context().get_ref().unwrap() while the worker may be running.
MainRead ==
    LET c   == FrameContext(Heap0, Top)
        id  == cells[c].arc
        res == IF cells[c].kind = "Local" THEN "Ok" ELSE SyncGetRef(id)
    IN
    /\ Running /\ pc = "spawned"
    /\ held' = IF res = "Ok" THEN [held EXCEPT ![id][MainThread].ref = TRUE]
               ELSE held
    /\ MainStep(Heap0, [Op("get_ref", IF res = "Ok" THEN res ELSE "Panic")
                           EXCEPT !.a = c],
                frames, IF res = "Ok" THEN "reading" ELSE "panicked", join)
    /\ UNCHANGED workvars

\* The DualRef of that read is dropped at the end of the statement.
MainReadDone ==
    LET id == cells[FrameContext(Heap0, Top)].arc IN
    /\ Running /\ pc = "reading"
    /\ held' = [held EXCEPT ![id][MainThread].ref = FALSE]
    /\ MainStep(Heap0, Op("drop_guard", "Ok"), frames, "read", join)
    /\ UNCHANGED workvars

\* runtime.call(join, &[]) up to handle.join(): the frame of the join method
\* is entered, the Join is looked at and its handle taken.
JoinEnter ==
    /\ Running /\ pc \in {"spawned", "read", "joined"}
    /\ \E r \in {CallFrame(Heap0, Top, join, 0)} :
          IF r.res # "Ok"
          THEN MainStep(Returned(r.h, Top), Op("join", r.res), frames, pc,
                        join)
          ELSE IF r.h.cells[FrameContext(r.h, r.addr)].obj # JoinObj
          THEN MainStep(r.h, [Op("join", "Panic") EXCEPT !.pre = "taken"],
                        Append(frames, r.addr), "panicked", join)
          ELSE MainStep([r.h EXCEPT
                           !.cells[FrameContext(r.h, r.addr)].obj = JoinNone,
                           !.entry = r.addr],
                        [Op("join", "Wait") EXCEPT !.pre = "fresh"],
                        Append(frames, r.addr), "joining", join)
    /\ UNCHANGED <<held, workvars>>

\* A join method that drops the worker's error and returns Ok.
JoinSwallows ==
    LET fs == SubSeq(frames, 1, Len(frames) - 1)
        f0 == frames[Len(frames) - 1]
    IN
    /\ Running /\ pc = "joining"
    /\ wpc \in {"done", "panicked"}
    /\ IF wpc = "panicked"
       THEN /\ MainStep(Heap0, [Op("join", "Panic") EXCEPT !.pre = "fresh"],
                        frames, "panicked", join)
            /\ UNCHANGED ret
       ELSE IF wres.res # "Ok"
       THEN /\ MainStep(Returned(Heap0, f0),
                        [Op("join", "Ok") EXCEPT !.pre = "fresh"],
                        fs, "joined", join)
            /\ ret' = 0
       ELSE \E r \in {InsertResults(Heap0, Top,
                                     ResultOrder(wres.handles))} :
            /\ MainStep(Returned(r.h, f0),
                        [Op("join", r.res) EXCEPT !.pre = "fresh"],
                        fs, "joined", join)
            /\ ret' = Len(FrameStack(r.h, f0)) - Len(FrameStack(Heap0, f0))
    /\ UNCHANGED <<held, wpc, wstack, wargs, wres>>

\* handle.join().unwrap()? returns when the worker has ended; the results
\* are inserted and handed up, and the call returns.
JoinReturn ==
    LET fs == SubSeq(frames, 1, Len(frames) - 1)
        f0 == frames[Len(frames) - 1]
    IN
    /\ Running /\ pc = "joining"
    /\ wpc \in {"done", "panicked"}
    /\ IF wpc = "panicked"
       THEN /\ MainStep(Heap0, [Op("join", "Panic") EXCEPT !.pre = "fresh"],
                        frames, "panicked", join)
            /\ UNCHANGED ret
       ELSE IF wres.res # "Ok"
       THEN /\ MainStep(Returned(Heap0, f0),
                        [Op("join", wres.res) EXCEPT !.pre = "fresh"],
                        fs, "joined", join)
            /\ ret' = 0
       ELSE \E r \in {InsertResults(Heap0, Top,
                                     ResultOrder(wres.handles))} :
            /\ MainStep(Returned(r.h, f0),
                        [Op("join", r.res) EXCEPT !.pre = "fresh"],
                        fs, "joined", join)
            /\ ret' = Len(FrameStack(r.h, f0)) - Len(FrameStack(Heap0, f0))
    /\ UNCHANGED <<held, wpc, wstack, wargs, wres>>

\* What a step of the worker leaves alone: main's heap and runtime.
WorkerStep ==
    UNCHANGED <<cells, slots, entry, nmax, ub, last, crashed, dropped,
                threadvars, lent, wait, who, wargs, script, ret,
                callvars>>

\* The worker's Memory is dropped with its closure: the handles in its slots
\* (the method, the arguments) go.
RECURSIVE DropHandles(_, _)
DropHandles(as, ids) ==
    IF ids = <<>> THEN as
    ELSE DropHandles(DropHandle(as, Head(ids)), Tail(ids))

WorkerExit(as) == DropHandles(as, <<wargs.method>> \o wargs.args)

\* Lines 20-28: the worker's heap and runtime, the handles pushed.
WorkerBoot ==
    /\ wpc = "boot"
    /\ wstack' = WorkerFrame(wargs.args)
    /\ wpc' = "body"
    /\ UNCHANGED <<arcs, held, wres>>
    /\ WorkerStep

\* Line 29, the method's first statement: get_context.get_mut()?; a method
\* that panics unwinds the worker.
WorkerEnter ==
    LET res == SyncGetMut(wargs.ctx) IN
    /\ wpc = "body"
    /\ IF script.body = "panic"
       THEN /\ wpc' = "panicked"
            /\ arcs' = WorkerExit(arcs)
            /\ UNCHANGED <<held, wres>>
       ELSE IF res = "Ok"
       THEN /\ held' = [held EXCEPT ![wargs.ctx][Worker].mut = TRUE]
            /\ wpc' = "write"
            /\ UNCHANGED <<arcs, wres>>
       ELSE /\ wres' = [res |-> res, handles |-> <<>>]
            /\ wpc' = "done"
            /\ arcs' = WorkerExit(arcs)
            /\ UNCHANGED held
    /\ UNCHANGED wstack
    /\ WorkerStep

\* The rest of the method: this += x through the write guard, which is then
\* dropped; its results are inserted, pushed and handed to the worker's
\* initial frame.
WorkerWrite ==
    LET x  == wstack[1]
        rs == [k \in 1..script.nres |-> WorkerArc(k)]
    IN
    /\ wpc = "write"
    /\ held' = [held EXCEPT ![wargs.ctx][Worker].mut = FALSE]
    /\ IF wstack = <<>>
       THEN /\ wres' = [res |-> "ExhaustedFrame", handles |-> <<>>]
            /\ wpc' = "done"
            /\ arcs' = WorkerExit(arcs)
            /\ UNCHANGED wstack
       ELSE /\ arcs' = [i \in DOMAIN arcs |->
                          IF i = wargs.ctx
                          THEN [arcs[i] EXCEPT
                                  !.obj.val = @ + arcs[x].obj.val]
                          ELSE IF i \in Range(rs)
                          THEN [rc |-> 1, obj |-> IntObj(42)]
                          ELSE arcs[i]]
            /\ wstack' = wstack \o rs
            /\ wpc' = "results"
            /\ UNCHANGED wres
    /\ WorkerStep

\* Lines 30-35: result_count results are shared and popped, top first.
RECURSIVE PopResults(_, _)
PopResults(stack, count) ==
    IF count = 0 THEN <<>>
    ELSE <<stack[Len(stack)]>>
         \o PopResults(SubSeq(stack, 1, Len(stack) - 1), count - 1)

WorkerFinish ==
    LET count == Len(wstack) - Len(wargs.args) IN
    /\ wpc = "results"
    /\ wres' = [res |-> "Ok", handles |-> PopResults(wstack, count)]
    /\ wstack' = SubSeq(wstack, 1, Len(wstack) - count)
    /\ wpc' = "done"
    /\ arcs' = WorkerExit(arcs)
    /\ UNCHANGED held
    /\ WorkerStep

\* examples/main.rs up to the direct call: context Int(42), the runtime
\* booted, the method inserted, the arguments Int(1) inserted and pushed.
InitWorker ==
    /\ \E n \in 0..NArg, m \in 0..NRes, b \in {"inc", "panic"} :
          /\ cells = [a \in 1..MainCap |->
                        CASE a = 1 -> LocalCell(IntObj(42))
                          [] a = 2 -> LocalCell(FrameObj(1, [i \in 1..n |-> 3 + i],
                                                         None))
                          [] a = 3 -> LocalCell(MethodObj("Method", 1))
                          [] a \in 4..(3 + n) -> LocalCell(IntObj(1))
                          [] OTHER -> FreeCell]
          /\ slots = [i \in 1..(3 + n) |-> i]
          /\ script = [method |-> 3, nres |-> m, body |-> b]
    /\ nmax = MainCap
    /\ arcs = [i \in 1..(MainCap + NRes) |-> FreeArc]
    /\ held = [i \in 1..(MainCap + NRes) |-> [t \in Threads |-> NoGuard]]
    /\ entry = 2
    /\ ub = {}
    /\ crashed = FALSE
    /\ dropped = FALSE
    /\ last = Op("boot", "Ok")
    /\ frames = <<2>>
    /\ pc = "start"
    /\ join = None
    /\ ncall = 0
    /\ lent = <<>>
    /\ wait = <<>>
    /\ who = None
    /\ wpc = "none"
    /\ wstack = <<>>
    /\ wargs = [method |-> None, ctx |-> None, args |-> <<>>, given |-> <<>>]
    /\ wres = [res |-> "", handles |-> <<>>]
    /\ ret = 0
    /\ NoCall

NextWorker ==
    \/ DirectCall
    \/ ThreadCall
    \/ MainRead
    \/ MainReadDone
    \/ JoinEnter
    \/ JoinReturn
    \/ WorkerBoot
    \/ WorkerEnter
    \/ WorkerWrite
    \/ WorkerFinish

SpecWorker == InitWorker /\ [][NextWorker]_vars

\* ------------------------------------------- a callee and its caller's frame

\* Most operations a callee makes on its runtime during one call (bound).
MaxOps == 6

\* The frame of the caller of the frame on top.
Caller == frames[Len(frames) - 1]

\* ghost: an operation the callee has made on its runtime.
Did(op, i) == [op |-> op, i |-> i]

\* What a call in progress leaves alone.
CallStep ==
    UNCHANGED <<nmax, crashed, dropped, join, ncall, lent, syncvars,
                wpc, wstack, wargs, wres, script, runvars, restvars>>

\* The heap and the runtime after a step of a call.
CallHeap(h, l, fs, p) ==
    /\ cells' = h.cells /\ arcs' = h.arcs /\ slots' = h.slots
    /\ entry' = h.entry /\ ub' = h.ub
    /\ last' = l /\ frames' = fs /\ pc' = p

\* runtime.call(method, &[1..n]) up to the method's function: the frame of
\* the callee is inserted and made current.
CallEnter ==
    /\ Running /\ pc = "start"
    /\ \E r \in {CallFrame(Heap0, Top, script.method,
                            Len(FrameStack(Heap0, Top)))} :
          /\ IF r.res = "Ok"
             THEN CallHeap([r.h EXCEPT !.entry = r.addr], Op("enter", "Ok"),
                           Append(frames, r.addr), "callee")
             ELSE CallHeap(r.h, Op("call", r.res), frames, "returned")
          /\ fr' = [pushed |-> <<>>, handed |-> <<>>, ops |-> <<>>,
                    stack0 |-> FrameStack(Heap0, Top), callee |-> r.addr]
    /\ ret' = 0
    /\ CallStep

\* In the callee: let x = runtime.memory.insert_local(..)?; runtime.push(x).
\* A failed insert is the error the body returns.
CalleePush ==
    /\ Running /\ pc = "callee"
    /\ Len(fr.ops) < MaxOps
    /\ \E r \in {InsertDual(Heap0, nmax, LocalCell(IntObj(42)),
                             Alloc(Heap0))} :
          IF r.res = "Ok"
          THEN /\ CallHeap(Push(r.h, Top, r.addr), Op("push", "Ok"), frames,
                           pc)
               /\ fr' = [fr EXCEPT !.pushed = Append(@, r.addr),
                                   !.ops = Append(@, Did("push", 0))]
          ELSE /\ CallHeap(Returned(r.h, Caller), Op("call", r.res),
                           SubSeq(frames, 1, Len(frames) - 1), "returned")
               /\ UNCHANGED fr
    /\ UNCHANGED ret
    /\ CallStep

\* In the callee: runtime.pop()?; on an empty stack the body returns the
\* error.
CalleePop ==
    /\ Running /\ pc = "callee"
    /\ Len(fr.ops) < MaxOps
    /\ IF FrameStack(Heap0, Top) # <<>>
       THEN /\ CallHeap(Pop(Heap0, Top), Op("pop", "Ok"), frames, pc)
            /\ fr' = [fr EXCEPT !.ops = Append(@, Did("pop", 0))]
       ELSE /\ CallHeap(Returned(Heap0, Caller),
                        Op("call", "ExhaustedFrame"),
                        SubSeq(frames, 1, Len(frames) - 1), "returned")
            /\ UNCHANGED fr
    /\ UNCHANGED ret
    /\ CallStep

\* The address push_parent(i) hands up from frame f.
Handed(h, f, i) == Get(h, f, i)

\* In the callee: runtime.push_parent(i)?; out of range the body returns
\* ExhaustedFrame.
CalleePushParent(i) ==
    /\ Running /\ pc = "callee"
    /\ Len(fr.ops) < MaxOps
    /\ IF i <= Len(FrameStack(Heap0, Top))
       THEN /\ CallHeap(PushParent(Heap0, Top, i), Op("push_parent", "Ok"),
                        frames, pc)
            /\ fr' = [fr EXCEPT !.handed = Append(@, Handed(Heap0, Top, i)),
                                !.ops = Append(@, Did("push_parent", i))]
       ELSE /\ CallHeap(Returned(Heap0, Caller),
                        Op("call", "ExhaustedFrame"),
                        SubSeq(frames, 1, Len(frames) - 1), "returned")
            /\ UNCHANGED fr
    /\ UNCHANGED ret
    /\ CallStep

\* The body returns Ok(()): the frame is popped, the entry goes back to the
\* caller's frame and call returns caller.len() - L0.
CallReturn ==
    /\ Running /\ pc = "callee"
    /\ CallHeap(Returned(Heap0, Caller), Op("call", "Ok"),
                SubSeq(frames, 1, Len(frames) - 1), "returned")
    /\ ret' = Len(FrameStack(Heap0, Caller)) - Len(fr.stack0)
    /\ UNCHANGED fr
    /\ CallStep

\* A runtime booted on a context, a method on that context and up to
\* MaxArgs arguments pushed on the initial frame.
InitFrame ==
    /\ \E n \in 0..MaxArgs :
          /\ cells = [a \in 1..MainCap |->
                        CASE a = 1 -> LocalCell(IntObj(42))
                          [] a = 2 -> LocalCell(FrameObj(1, [i \in 1..n |-> 3 + i],
                                                         None))
                          [] a = 3 -> LocalCell(MethodObj("Method", 1))
                          [] a \in 4..(3 + n) -> LocalCell(IntObj(1))
                          [] OTHER -> FreeCell]
          /\ slots = [i \in 1..(3 + n) |-> i]
    /\ script = [method |-> 3, nres |-> 0, body |-> ""]
    /\ nmax = MainCap
    /\ arcs = [i \in 1..MainCap |-> FreeArc]
    /\ entry = 2
    /\ ub = {}
    /\ crashed = FALSE
    /\ dropped = FALSE
    /\ last = Op("boot", "Ok")
    /\ frames = <<2>>
    /\ pc = "start"
    /\ join = None
    /\ ncall = 0
    /\ lent = <<>>
    /\ NoSync
    /\ wpc = "none"
    /\ wstack = <<>>
    /\ wargs = [method |-> None, ctx |-> None, args |-> <<>>, given |-> <<>>]
    /\ wres = [res |-> "", handles |-> <<>>]
    /\ ret = 0
    /\ NoCall

NextFrame ==
    \/ CallEnter
    \/ CalleePush
    \/ CalleePop
    \/ \E i \in 1..(Len(FrameStack(Heap0, Top)) + 1) : CalleePushParent(i)
    \/ CallReturn

SpecFrame == InitFrame /\ [][NextFrame]_vars

\* ------------------------------------- run_method of Runtime and of Interp

\* Most run_method invocations nested in one another (bound).
MaxDepth == 2

\* The capacity of the runtime's memory, in Env objects (bound).
MaxEnv == 4

\* Frame::current_env
CurrentEnv(frame) == frame[Len(frame)]

\* The frame on top of the frame stack.
TopFrame == frame_stack[Len(frame_stack)]

\* No run_method has just returned.
NoReturn == [res |-> "", depth0 |-> 0, root0 |-> None, size0 |-> 0]

\* What a caller saw when it called run_method.
Seen == [depth0 |-> Len(frame_stack), root0 |-> root, size0 |-> nenv]

\* A returned run_method: its result and what its caller had seen.
Outcome(res, call) ==
    [res |-> res, depth0 |-> call.depth0, root0 |-> call.root0,
     size0 |-> call.size0]

\* No expect() or unwrap() of the runtime has panicked.
Alive == rlast.res # "Panic"

\* An expect() or unwrap() on a frame without env unwinds the thread.
Panicked ==
    /\ rlast' = Outcome("Panic", Seen)
    /\ UNCHANGED <<frame_stack, root, nenv, calls>>

\* What run_method leaves alone: the Memory of core/memory.rs and the
\* runtime built on it.
RunStep ==
    UNCHANGED <<memvars, threadvars, lent, syncvars, workvars, framevars,
                engine, restvars>>

\* run_method has returned res to its caller before the body was run.
RunReturned(res, fs, r, n) ==
    /\ rlast' = Outcome(res, Seen)
    /\ frame_stack' = fs /\ root' = r /\ nenv' = n
    /\ UNCHANGED calls

\* Runtime::run_method up to method_object.run: push_frame()?, then the
\* method is looked up; Interp::run_method looks the method up first.
RunMethod(callable) ==
    LET env    == nenv + 1
        pushed == Append(frame_stack, <<env>>)
    IN
    /\ Alive
    /\ frame_stack # <<>>
    /\ Len(calls) < MaxDepth
    /\ IF engine = "Interp" /\ ~callable
       THEN RunReturned("NotCallable", frame_stack, root, nenv)
       ELSE IF TopFrame = <<>>
       THEN Panicked
       ELSE IF nenv = MaxEnv
       THEN RunReturned("OutOfMemory", frame_stack, root, nenv)
       ELSE IF ~callable
       THEN RunReturned("NotCallable", pushed, env, env)
       ELSE /\ frame_stack' = pushed /\ root' = env /\ nenv' = env
            /\ calls' = Append(calls, Seen)
            /\ rlast' = NoReturn
    /\ RunStep

\* In a method body: runtime.push_env()?; a full memory is the error the
\* body returns.
BodyPushEnv ==
    LET env == nenv + 1
        top == Len(frame_stack)
    IN
    /\ Alive
    /\ calls # <<>>
    /\ IF nenv = MaxEnv
       THEN /\ rlast' = Outcome("BodyErr", calls[Len(calls)])
            /\ calls' = SubSeq(calls, 1, Len(calls) - 1)
            /\ UNCHANGED <<frame_stack, root, nenv>>
       ELSE IF TopFrame = <<>>
       THEN /\ rlast' = Outcome("Panic", Seen)
            /\ nenv' = env
            /\ UNCHANGED <<frame_stack, root, calls>>
       ELSE /\ frame_stack' = [frame_stack EXCEPT ![top] = Append(@, env)]
            /\ root' = env /\ nenv' = env
            /\ rlast' = NoReturn
            /\ UNCHANGED calls
    /\ RunStep

\* In a method body: runtime.pop_env(): the env is popped, then the root is
\* set to the env below it, or EmptyEnvStack returned when there is none.
BodyPopEnv ==
    LET top == Len(frame_stack)
        es  == SubSeq(TopFrame, 1, Len(TopFrame) - 1)
    IN
    /\ Alive
    /\ calls # <<>>
    /\ frame_stack' = [frame_stack EXCEPT ![top] = es]
    /\ root' = IF es = <<>> THEN root ELSE CurrentEnv(es)
    /\ rlast' = NoReturn
    /\ UNCHANGED <<nenv, calls>>
    /\ RunStep

\* method_object.run(self)?: the Err of the body leaves run_method here.
FrameLeft(fs) == fs

\* The method body returns Err: run_method returns it through `?`.
BodyFail ==
    /\ Alive
    /\ calls # <<>>
    /\ rlast' = Outcome("BodyErr", calls[Len(calls)])
    /\ frame_stack' = FrameLeft(frame_stack)
    /\ calls' = SubSeq(calls, 1, Len(calls) - 1)
    /\ UNCHANGED <<root, nenv>>
    /\ RunStep

\* The method body returns Ok(()): pop_frame()?; Ok(()). Runtime::pop_frame
\* reads the current env of the frame it pops, Interp::pop_frame does not.
BodyOk ==
    LET fs == SubSeq(frame_stack, 1, Len(frame_stack) - 1) IN
    /\ Alive
    /\ calls # <<>>
    /\ IF (engine = "Runtime" /\ TopFrame = <<>>) \/ fs[Len(fs)] = <<>>
       THEN Panicked
       ELSE /\ rlast' = Outcome("Ok", calls[Len(calls)])
            /\ frame_stack' = fs
            /\ root' = CurrentEnv(fs[Len(fs)])
            /\ calls' = SubSeq(calls, 1, Len(calls) - 1)
            /\ UNCHANGED nenv
    /\ RunStep

\* Runtime::new(mem) / Interp::new(n): the first frame with its first env,
\* which is the root.
InitRun ==
    /\ engine \in {"Runtime", "Interp"}
    /\ NoRest
    /\ frame_stack = <<<<1>>>>
    /\ root = 1
    /\ nenv = 1
    /\ calls = <<>>
    /\ rlast = NoReturn
    /\ fr = [pushed |-> <<>>, handed |-> <<>>, ops |-> <<>>, stack0 |-> <<>>,
             callee |-> None]
    /\ cells = [a \in 1..MaxCap |-> FreeCell]
    /\ arcs = [i \in 1..MaxCap |-> FreeArc]
    /\ slots = <<>>
    /\ entry = None
    /\ nmax = MaxCap
    /\ ub = {}
    /\ crashed = FALSE
    /\ dropped = FALSE
    /\ last = Op("boot", "Ok")
    /\ NoThread
    /\ lent = <<>>
    /\ NoSync
    /\ NoWorker

NextRun ==
    \/ \E callable \in BOOLEAN : RunMethod(callable)
    \/ BodyPushEnv
    \/ BodyPopEnv
    \/ BodyFail
    \/ BodyOk

SpecRun == InitRun /\ [][NextRun]_vars

\* ------------------------------------------------ collections under callees

\* The capacity of the heap of a runtime whose methods call methods.
NestCap == 6

\* How many operations the runtime performs; ncall counts them here.
NestOps == 7

\* What a method body inserts: an Int, or a Method on the context of the
\* frame it runs in.
NestPayloads == {IntObj(42), MethodObj("Method", FrameContext(Heap0, Top))}

\* Which free address Box::new returns makes no difference to what a
\* collection keeps: the least of the addresses Fresh allows stands for all.
LeastFresh(h, n) ==
    LET h1 == AfterCap(h, n) IN
    IF NObject(h1) = n THEN Min(DOMAIN h.cells)
    ELSE Min({a \in DOMAIN h.cells : ~h1.cells[a].alloc})

\* let x = runtime.memory.insert_local(Object::new(..))?; runtime.push(x),
\* in the embedder's code or in a method body at any depth.
NestPush(obj, a) ==
    /\ Idle /\ ncall < NestOps /\ Room
    /\ a = LeastFresh(Heap0, nmax)
    /\ \E r \in {InsertDual(Heap0, nmax, LocalCell(obj), a)} :
          Step(IF r.res = "Ok" THEN Push(r.h, Top, a) ELSE r.h,
               Inserted(r, Len(slots)), frames, pc, join, ncall + 1)

\* runtime.pop()?: what was pushed is no longer held by the frame.
NestPop ==
    /\ Idle /\ ncall < NestOps
    /\ FrameStack(Heap0, Top) # <<>>
    /\ Step(Pop(Heap0, Top), Op("other", "Ok"), frames, pc, join, ncall + 1)

\* runtime.call(method, &[1..=n]) where the method is the k-th entry of the
\* current stack: the callee's Frame is inserted with the method's context,
\* the top n entries as arguments and the current frame as parent, pushed on
\* the frame stack and made the entry; the method's body then runs on it.
NestCall(k, n, a) ==
    /\ Idle /\ ncall < NestOps /\ Len(frames) <= MaxDepth
    /\ Len(FrameStack(Heap0, Top)) >= n
    /\ k \in 1..Len(FrameStack(Heap0, Top))
    /\ \E method \in {Get(Heap0, Top, k)} :
          /\ cells[method].kind = "Local" /\ cells[method].obj.ty = "Method"
          /\ a = LeastFresh(Heap0, nmax)
          /\ \E r \in {InsertDual(Heap0, nmax,
                          LocalCell(FrameObj(Head(cells[method].obj.hold),
                                             [i \in 1..n |->
                                                Get(Heap0, Top, i)],
                                             Top)), a)} :
                IF r.res = "Ok"
                THEN Step([r.h EXCEPT !.entry = a],
                          [Op("enter", "Ok") EXCEPT
                              !.freed = Inserted(r, Len(slots)).freed],
                          Append(frames, a), pc, join, ncall + 1)
                ELSE Step(r.h, [Op("call", r.res) EXCEPT
                                   !.freed = Inserted(r, Len(slots)).freed],
                          frames, pc, join, ncall + 1)

\* runtime.push_parent(i)? in a method body.
NestPushParent(i) ==
    /\ Idle /\ ncall < NestOps /\ Len(frames) > 1
    /\ i \in 1..Len(FrameStack(Heap0, Top))
    /\ Len(FrameStack(Heap0, FrameParent(Heap0, Top))) <= MaxArgs
    /\ Step(PushParent(Heap0, Top, i), Op("other", "Ok"), frames, pc, join,
            ncall + 1)

\* The method body returns and runtime.call with it: the frame stack is
\* popped and the entry goes back to the caller's frame.
NestReturn ==
    /\ Idle /\ ncall < NestOps /\ Len(frames) > 1
    /\ \E fs \in {SubSeq(frames, 1, Len(frames) - 1)} :
          Step([Heap0 EXCEPT !.entry = fs[Len(fs)]], Op("call", "Ok"), fs, pc,
               join, ncall + 1)

\* A booted runtime on Memory::new(NestCap): the initial context, the initial Frame.
InitNest ==
    /\ \E n \in {NestCap} :
          /\ nmax = n
          /\ cells = [a \in 1..n |->
                        CASE a = 1 -> LocalCell(IntObj(42))
                          [] a = 2 -> LocalCell(FrameObj(1, <<>>, None))
                          [] OTHER -> FreeCell]
          /\ arcs = [i \in 1..n |-> FreeArc]
    /\ slots = <<1, 2>>
    /\ entry = 2
    /\ ub = {}
    /\ crashed = FALSE
    /\ dropped = FALSE
    /\ last = Op("boot", "Ok")
    /\ frames = <<2>>
    /\ pc = "idle"
    /\ join = None
    /\ ncall = 0
    /\ lent = <<>>
    /\ NoSync
    /\ NoWorker
    /\ NoCall

NextNest ==
    \/ \E obj \in NestPayloads :
          \E a \in {LeastFresh(Heap0, nmax)} : NestPush(obj, a)
    \/ NestPop
    \/ \E k \in 1..(MaxArgs + 1), n \in 0..MaxArgs :
          \E a \in {LeastFresh(Heap0, nmax)} : NestCall(k, n, a)
    \/ \E i \in 1..(MaxArgs + 1) : NestPushParent(i)
    \/ NestReturn

SpecNest == InitNest /\ [][NextNest]_vars

\* ------------------------------------- producers and consumers on one queue

\* How many producers main spawns, and as many consumers.
NPair == 2

\* Queue::new(max_len)
QueueLen == 1

\* The tasks of one pass of a producer run from -MaxTask to MaxTask.
MaxTask == 1

\* How many passes a producer makes.
Rounds == 1

\* The task that makes a consumer return.
Sentinel == 0

Main == 0

Workers == 1..(2 * NPair)

\* main calls thread_consume, then thread_produce, NPair times over.
IsConsumer(w) == w % 2 = 1

\* for i in -100..=100 { if i == 0 { continue; } .. }
Pass == [k \in 1..(2 * MaxTask) |->
            IF k <= MaxTask THEN k - MaxTask - 1 ELSE k - MaxTask]

RECURSIVE Passes(_)
Passes(n) == IF n = 0 THEN <<>> ELSE Pass \o Passes(n - 1)

\* What producer_loop pushes: its passes, then the sentinel.
Tasks == Passes(Rounds) \o <<Sentinel>>

\* A thread of the example.  i: the tasks a producer has pushed, or the
\* threads main has spawned or joined; sum: a consumer's local sum; token:
\* the token of the Parker the thread made last; got (ghost): how many times
\* a consumer popped each value.
Thread(role, p) ==
    [role |-> role, pc |-> p, i |-> 0, sum |-> 0, token |-> FALSE,
     got |-> EmptyBag]

\* The Queue behind the shared handle.
Queue == [internal |-> queue, idle_workers |-> idle_workers,
          idle_hosts |-> idle_hosts]

\* Vec::pop on a vector of unparkers, then unpark(): the thread whose token
\* is made available, if any.
Unparked(idle) == IF idle = <<>> THEN {} ELSE {idle[Len(idle)]}

PopIdle(idle) == IF idle = <<>> THEN <<>> ELSE SubSeq(idle, 1, Len(idle) - 1)

\* A push_back that wakes nobody.
PushBackSilent(q, object) ==
    [q |-> [q EXCEPT !.internal = Append(@, object)], woke |-> {}]

\* Queue::push_back
PushBack(q, object) ==
    [q |-> [q EXCEPT !.internal = Append(@, object),
                     !.idle_workers = PopIdle(@)],
     woke |-> Unparked(q.idle_workers)]

\* A pop_front that hands the task out and leaves it in the queue.
PopFrontKeeps(q) ==
    [q |-> [q EXCEPT !.idle_hosts = PopIdle(@)],
     woke |-> Unparked(q.idle_hosts), object |-> Head(q.internal)]

\* Queue::pop_front
PopFront(q) ==
    [q |-> [q EXCEPT !.internal = Tail(@), !.idle_hosts = PopIdle(@)],
     woke |-> Unparked(q.idle_hosts), object |-> Head(q.internal)]

IsEmpty(q) == q.internal = <<>>

IsFull(q) == Len(q.internal) = QueueLen

\* Queue::push_back_safe called by thread w.
PushBackSafe(q, object, w) ==
    IF IsFull(q)
    THEN [q |-> [q EXCEPT !.idle_hosts = Append(@, w)], woke |-> {},
          ok |-> FALSE]
    ELSE [q |-> PushBack(q, object).q, woke |-> PushBack(q, object).woke,
          ok |-> TRUE]

\* Queue::pop_front_safe called by thread w.
PopFrontSafe(q, w) ==
    IF IsEmpty(q)
    THEN [q |-> [q EXCEPT !.idle_workers = Append(@, w)], woke |-> {},
          ok |-> FALSE, object |-> Sentinel]
    ELSE [q |-> PopFront(q).q, woke |-> PopFront(q).woke, ok |-> TRUE,
          object |-> PopFront(q).object]

\* What a step of the example leaves alone.
MpmcStep ==
    UNCHANGED <<memvars, threadvars, lent, syncvars, workvars, framevars,
                runvars, histvars, peervars, latevars>>

\* The queue after a call, and the tokens of the threads it unparked.
Queued(r, wk) ==
    /\ queue' = r.q.internal
    /\ idle_workers' = r.q.idle_workers
    /\ idle_hosts' = r.q.idle_hosts
    /\ work' = [w \in DOMAIN wk |->
                  IF w \in r.woke THEN [wk[w] EXCEPT !.token = TRUE]
                  ELSE wk[w]]

\* runtime.call(thread_consume, ..) / runtime.call(thread_produce, ..) in
\* main's first loop: the next thread starts its loop; after the last one
\* main goes on to the joins.
MainSpawn ==
    /\ work[Main].pc = "spawn"
    /\ \E w \in {work[Main].i + 1} :
          work' = [work EXCEPT
                     ![w].pc = IF IsConsumer(w) THEN "pop" ELSE "push",
                     ![Main].i = IF w = 2 * NPair THEN 0 ELSE w,
                     ![Main].pc = IF w = 2 * NPair THEN "join" ELSE "spawn"]
    /\ UNCHANGED <<queue, idle_workers, idle_hosts, sums>>
    /\ MpmcStep

\* One turn of producer_loop's inner loop: push_back_safe under the queue's
\* write lock; Err(parker) leads to park, Ok to the next task or the return.
ProducerPush(w) ==
    /\ work[w].role = "producer" /\ work[w].pc = "push"
    /\ \E r \in {PushBackSafe(Queue, Tasks[work[w].i + 1], w)} :
          Queued(r, [work EXCEPT
                       ![w].i = IF r.ok THEN @ + 1 ELSE @,
                       ![w].token = IF r.ok THEN @ ELSE FALSE,
                       ![w].pc = IF ~r.ok THEN "park"
                                 ELSE IF work[w].i + 1 = Len(Tasks)
                                      THEN "done" ELSE "push"])
    /\ UNCHANGED sums
    /\ MpmcStep

\* One turn of consumer_loop: pop_front_safe under the queue's write lock;
\* Err(parker) leads to park, the sentinel to the return of the sum, any
\* other task is added to the sum.
ConsumerPop(w) ==
    /\ work[w].role = "consumer" /\ work[w].pc = "pop"
    /\ \E r \in {PopFrontSafe(Queue, w)} :
          Queued(r, [work EXCEPT
                       ![w].token = IF r.ok THEN @ ELSE FALSE,
                       ![w].got = IF r.ok THEN @ (+) SetToBag({r.object})
                                  ELSE @,
                       ![w].sum = IF r.ok /\ r.object # Sentinel
                                  THEN @ + r.object ELSE @,
                       ![w].pc = IF ~r.ok THEN "park"
                                 ELSE IF r.object = Sentinel THEN "done"
                                      ELSE "pop"])
    /\ UNCHANGED sums
    /\ MpmcStep

\* parker.park() returns once the token is available, and takes it.
Park(w) ==
    /\ work[w].pc = "park" /\ work[w].token
    /\ work' = [work EXCEPT
                  ![w].token = FALSE,
                  ![w].pc = IF work[w].role = "consumer" THEN "pop"
                            ELSE "push"]
    /\ UNCHANGED <<queue, idle_workers, idle_hosts, sums>>
    /\ MpmcStep

\* main's second loop: the join methods come off main's stack newest first;
\* a join returns when its thread has returned, a consumer's with the sum.
MainJoin ==
    /\ work[Main].pc = "join"
    /\ \E w \in {2 * NPair - work[Main].i} :
          /\ work[w].pc = "done"
          /\ work' = [work EXCEPT
                        ![w].pc = "joined",
                        ![Main].i = @ + 1,
                        ![Main].pc = IF w = 1 THEN "done" ELSE "join"]
          /\ sums' = IF IsConsumer(w) THEN Append(sums, work[w].sum)
                     ELSE sums
    /\ UNCHANGED <<queue, idle_workers, idle_hosts>>
    /\ MpmcStep

\* main up to its first loop: the queue is inserted and pushed, no thread
\* runs yet.
InitMpmc ==
    /\ queue = <<>>
    /\ idle_workers = <<>>
    /\ idle_hosts = <<>>
    /\ work = [w \in {Main} \cup Workers |->
                 IF w = Main THEN Thread("main", "spawn")
                 ELSE IF IsConsumer(w) THEN Thread("consumer", "unborn")
                 ELSE Thread("producer", "unborn")]
    /\ sums = <<>>
    /\ NewMemory(0)
    /\ last = Op("new", "Ok")
    /\ NoThread
    /\ lent = <<>>
    /\ NoSync
    /\ NoWorker
    /\ NoHist
    /\ NoPeer
    /\ NoMark
    /\ NoRemote
    /\ NoRun

\* The steps of one thread.
ThreadNext(w) == ProducerPush(w) \/ ConsumerPop(w) \/ Park(w)

MainNext == MainSpawn \/ MainJoin

NextMpmc ==
    \/ MainSpawn
    \/ MainJoin
    \/ \E w \in Workers : ProducerPush(w)
    \/ \E w \in Workers : ConsumerPop(w)
    \/ \E w \in Workers : Park(w)

SpecMpmc == InitMpmc /\ [][NextMpmc]_vars

\* Every thread that can take a step eventually takes one: the operating
\* system's scheduler runs every runnable thread, and the queue's lock is
\* held only for the length of one call.
SpecMpmcFair ==
    /\ SpecMpmc
    /\ WF_vars(MainNext)
    /\ \A w \in Workers : WF_vars(ThreadNext(w))

\* --------------------------------------------- addresses after reclamation

\* The addresses whose slot is in heap h and no longer in heap h1.
Released(h, h1) == Range(h.slots) \ Range(h1.slots)

\* What a call on the Memory leaves alone, and the addresses released so far.
ReuseStep(h1) ==
    /\ reclaimed' = IF crashed' THEN reclaimed
                    ELSE reclaimed \cup Released(Heap0, h1)
    /\ UNCHANGED <<nmax, dropped, threadvars, lent, syncvars, workvars,
                   framevars, runvars, mpmcvars, peervars,
                   latevars>>

\* memory.insert_local(Object::new(..)); `a` is the pointer Box::new returns:
\* any storage that is free when Address::new runs, storage that release
\* gave back included.
ReuseInsert(obj, a) ==
    /\ Running
    /\ Fresh(Heap0, nmax, a)
    /\ \E r \in {InsertDual(Heap0, nmax, LocalCell(obj), a)} :
          /\ Complete(r.h, Inserted(r, Len(slots)))
          /\ ReuseStep(r.h)

\* memory.set_entry(a)
ReuseSetEntry(a) ==
    /\ Running
    /\ a \in Range(slots)
    /\ Complete([Heap0 EXCEPT !.entry = a], Op("other", "Ok"))
    /\ ReuseStep(Heap0)

\* memory.collect()
ReuseCollect ==
    /\ Running
    /\ \E h1 \in {Collect(Heap0)} :
          /\ Complete(h1, [Op("collect", "Ok") EXCEPT
                              !.freed = Len(slots) - NObject(h1)])
          /\ ReuseStep(h1)

\* Memory::new(n) in a process whose allocator has room for more than n
\* slots.
InitReuse ==
    /\ \E n \in 1..MaxCap :
          /\ nmax = n
          /\ cells = [a \in 1..(n + 1) |-> FreeCell]
          /\ arcs = [i \in 1..(n + 1) |-> FreeArc]
    /\ slots = <<>>
    /\ entry = None
    /\ ub = {}
    /\ crashed = FALSE
    /\ dropped = FALSE
    /\ last = Op("new", "Ok")
    /\ NoThread
    /\ lent = <<>>
    /\ NoSync
    /\ NoWorker
    /\ NoCall

NextReuse ==
    \/ \E obj \in Payloads, a \in Addr : ReuseInsert(obj, a)
    \/ \E a \in Addr : ReuseSetEntry(a)
    \/ ReuseCollect

SpecReuse == InitReuse /\ [][NextReuse]_vars

\* ----------------------------------------- one payload behind two addresses

\* How often the second thread writes through its address.
MaxWrites == 2

\* What the second thread writes (memory.rs tests: Int(43)).
Written == {43, 44}

\* What a step of main or of the second thread leaves alone.
ShareStep ==
    UNCHANGED <<nmax, dropped, threadvars, lent, syncvars, workvars,
                framevars, runvars, histvars, mpmcvars, latevars>>

\* A step that leaves main's heap alone.
HeapKept(as) ==
    /\ arcs' = as
    /\ UNCHANGED <<cells, slots, entry, ub, last, crashed>>

\* let shared = addr.share().unwrap();
MainShare ==
    /\ Running /\ peer.main = "start"
    /\ \E r \in {Share(Heap0, peer.addr)} :
          /\ r.res = "Ok"
          /\ Complete(r.h, [Op("share", r.res) EXCEPT
                               !.a = peer.addr, !.handle = r.handle,
                               !.pre = cells[peer.addr].kind])
          /\ peer' = [peer EXCEPT !.main = "shared", !.handle = r.handle]
    /\ ShareStep

\* thread::spawn(move || { let mut mem = Memory::new(16); ..
MainSpawnPeer ==
    /\ Running /\ peer.main = "shared"
    /\ peer' = [peer EXCEPT !.main = "spawned", !.pc = "run"]
    /\ HeapKept(arcs)
    /\ ShareStep

\* let mut addr = mem.insert_shared(shared).unwrap(): the handle moves into
\* a slot of the second thread's heap.
PeerInsert ==
    /\ peer.pc = "run"
    /\ peer' = [peer EXCEPT !.pc = "inserted", !.slots = Append(@, peer.handle),
                            !.handle = None]
    /\ HeapKept(arcs)
    /\ ShareStep

\* *addr.get_mut().unwrap().as_mut::<Int>().unwrap() = Int(v) in the second
\* thread: nobody else holds a guard, try_write succeeds.
PeerWrite(v) ==
    /\ peer.pc = "inserted" /\ peer.n < MaxWrites
    /\ \E id \in {peer.slots[Len(peer.slots)]} :
          HeapKept([arcs EXCEPT ![id].obj.val = v])
    /\ peer' = [peer EXCEPT !.n = @ + 1, !.wrote = v]
    /\ ShareStep

\* The closure returns: the second thread's Memory goes out of scope and
\* releases its slots.
PeerReturn ==
    /\ peer.pc = "inserted"
    /\ HeapKept(DropHandles(arcs, peer.slots))
    /\ peer' = [peer EXCEPT !.pc = "returned", !.slots = <<>>]
    /\ ShareStep

\* handle.join().unwrap()
MainJoinPeer ==
    /\ Running /\ peer.main = "spawned" /\ peer.pc = "returned"
    /\ peer' = [peer EXCEPT !.main = "joined"]
    /\ HeapKept(arcs)
    /\ ShareStep

\* addr.get_ref().unwrap().as_ref::<Int>().unwrap().0 in main.
MainReadShared ==
    /\ Running /\ peer.main = "joined"
    /\ peer' = [peer EXCEPT
                  !.main = "read",
                  !.read = IF cells[peer.addr].kind = "Shared"
                           THEN arcs[cells[peer.addr].arc].obj.val
                           ELSE cells[peer.addr].obj.val]
    /\ HeapKept(arcs)
    /\ ShareStep

\* Main's other work on its own heap, at any time: an insertion ..
MainInsertOther(obj, a) ==
    /\ Running
    /\ Fresh(Heap0, nmax, a)
    /\ \E r \in {InsertDual(Heap0, nmax, LocalCell(obj), a)} :
          Complete(r.h, Inserted(r, Len(slots)))
    /\ UNCHANGED peer
    /\ ShareStep

\* .. or a collection.
MainCollectOther ==
    /\ Running
    /\ \E h1 \in {Collect(Heap0)} :
          Complete(h1, [Op("collect", "Ok") EXCEPT
                           !.freed = Len(slots) - NObject(h1)])
    /\ UNCHANGED peer
    /\ ShareStep

\* let mut mem = Memory::new(n); let mut addr =
\* mem.insert_local(Object::new(Int(42))).unwrap(), the slot being the entry.
InitShare ==
    /\ \E n \in 1..MaxCap :
          /\ nmax = n
          /\ cells = [a \in Space(n) |->
                        IF a = 1 THEN LocalCell(IntObj(42)) ELSE FreeCell]
          /\ arcs = [i \in Space(n) |-> FreeArc]
    /\ slots = <<1>>
    /\ entry = 1
    /\ ub = {}
    /\ crashed = FALSE
    /\ dropped = FALSE
    /\ last = Op("insert", "Ok")
    /\ peer = [main |-> "start", pc |-> "none", addr |-> 1, handle |-> None,
               slots |-> <<>>, n |-> 0, wrote |-> 42, read |-> None]
    /\ NoThread
    /\ lent = <<>>
    /\ NoSync
    /\ NoWorker
    /\ NoHist
    /\ NoMpmc
    /\ NoMark
    /\ NoRemote
    /\ NoRun

NextShare ==
    \/ MainShare
    \/ MainSpawnPeer
    \/ PeerInsert
    \/ \E v \in Written : PeerWrite(v)
    \/ PeerReturn
    \/ MainJoinPeer
    \/ MainReadShared
    \/ \E obj \in Payloads, a \in Addr : MainInsertOther(obj, a)
    \/ MainCollectOther

SpecShare == InitShare /\ [][NextShare]_vars

\* ------------------------------------------------ promoted holders as leaves

\* The payload behind the slot at a, wherever it lives.
PayloadOf(h, a) ==
    IF h.cells[a].kind = "Shared" THEN h.arcs[h.cells[a].arc].obj
    ELSE h.cells[a].obj

\* The payloads inserted here: an Int, and a Method whose context is a slot
\* of the heap that holds an Int.
LeafPayloads ==
    {IntObj(v) : v \in Values}
       \cup {MethodObj("Method", c) :
                c \in {x \in Range(slots) : PayloadOf(Heap, x).ty = "Int"}}

\* The Arcs a promotion of the slot at a would allocate: one for a Local
\* slot, and one more for the Local context of a Local Method.
NewArcs(h, a) ==
    LET cell == h.cells[a]
        c    == Head(cell.obj.hold)
    IN
    IF cell.kind # "Local" THEN {}
    ELSE {FreshArc(h.arcs, a)}
         \cup (IF cell.obj.ty \in MethodTypes /\ h.cells[c].kind = "Local"
               THEN {FreshArc(h.arcs, c)} ELSE {})

\* The content of a promoted Method goes with its last handle, and with it
\* the handle it kept on its context.  as0: the Arcs before the release.
RECURSIVE DropContexts(_, _, _)
DropContexts(as0, as, done) ==
    LET dead == {k \in DOMAIN as0 \ done :
                    /\ as0[k].rc >= 1 /\ as0[k].obj.ty \in MethodTypes
                    /\ as[k].rc = 0}
    IN
    IF dead = {} THEN as
    ELSE DropContexts(as0, DropHandle(as, Head(as0[Min(dead)].obj.hold)),
                      done \cup {Min(dead)})

\* The heap h1 an operation on h0 leaves, the contexts of the promoted
\* Methods it released being let go.
Settle(h0, h1) == [h1 EXCEPT !.arcs = DropContexts(h0.arcs, @, {})]

\* memory.insert_local(Object::new(..)), the payload a Method included.
LeafInsert(obj, a) ==
    /\ Running
    /\ Fresh(Heap0, nmax, a)
    /\ \E r \in {InsertDual(Heap0, nmax, LocalCell(obj), a)} :
          Complete(Settle(Heap0, r.h), Inserted(r, Len(slots)))
    /\ UNCHANGED <<nmax, dropped, threadvars, lent, othervars>>

\* memory.collect()
LeafCollect ==
    /\ Running
    /\ \E h1 \in {Collect(Heap0)} :
          Complete(Settle(Heap0, h1),
                   [Op("collect", "Ok") EXCEPT
                       !.freed = Len(slots) - NObject(h1)])
    /\ UNCHANGED <<nmax, dropped, threadvars, lent, othervars>>

\* addr.share() on any slot, a Method's context being promoted with it; the
\* handle returned is dropped at once.  An Arc is fresh storage: its id is
\* the address of the slot, so the promotion is taken when that id is free.
DoShareDeep(a) ==
    /\ Running
    /\ a \in Range(slots)
    /\ \A id \in NewArcs(Heap0, a) : arcs[id] = FreeArc
    /\ \E r \in {ShareDeep(Heap0, a)} :
          Complete(IF r.res = "Ok"
                   THEN [r.h EXCEPT !.arcs = DropHandle(@, r.handle)]
                   ELSE r.h,
                   [Op("share", r.res) EXCEPT
                       !.a = a, !.handle = r.handle, !.pre = cells[a].kind])
    /\ UNCHANGED <<nmax, dropped, threadvars, lent, othervars>>

InitLeaf == Init

NextLeaf ==
    \/ \E obj \in LeafPayloads, a \in Addr : LeafInsert(obj, a)
    \/ \E a \in Addr : SetEntry(a)
    \/ LeafCollect
    \/ \E a \in Addr : DoShareDeep(a)

SpecLeaf == InitLeaf /\ [][NextLeaf]_vars

\* ------------------------------------------- one collection, pop by pop

\* The slots of the heap that is collected, all holding Nodes.
MarkCap == 3

\* A vector holding the addresses of S, lowest first.
RECURSIVE SetToSeq(_)
SetToSeq(S) ==
    IF S = {} THEN <<>> ELSE <<Min(S)>> \o SetToSeq(S \ {Min(S)})

\* A loop that enqueues every holdee, marked or not.
EnqueuedAll(cs, hs) == hs

\* for holdee in addr.get_holdee() { if !holdee.is_marked() { push_back } }
Enqueued(cs, hs) == SelectSeq(hs, LAMBDA x : ~IsMarked(cs[x]))

\* What a step of the collection leaves alone.
MarkStep ==
    UNCHANGED <<arcs, entry, nmax, ub, crashed, dropped, frames, join, ncall,
                lent, syncvars, workvars, framevars, runvars, histvars,
                mpmcvars, peervars, remotevars>>

\* let mut que = VecDeque::new(); if let Some(entry) = self.entry { .. }
CollectBegin ==
    /\ Running /\ pc = "none"
    /\ mark_que' = Roots(Heap0)
    /\ pc' = "mark"
    /\ last' = Op("collect", "")
    /\ UNCHANGED <<cells, slots>>
    /\ MarkStep

\* One turn of while let Some(mut addr) = que.pop_front() { .. }
MarkPop ==
    /\ pc = "mark" /\ mark_que # <<>>
    /\ \E cs1 \in {[cells EXCEPT ![Head(mark_que)] = Marked(@)]} :
          /\ cells' = cs1
          /\ mark_que' = Tail(mark_que)
                            \o Enqueued(cs1, GetHoldee(cs1[Head(mark_que)]))
    /\ UNCHANGED <<slots, pc, last>>
    /\ MarkStep

\* The queue is empty: self.slots.retain(..)
SweepSlots ==
    /\ pc = "mark" /\ mark_que = <<>>
    /\ \E h1 \in {Sweep(Heap0, slots, <<>>)} :
          /\ cells' = h1.cells
          /\ slots' = h1.slots
          /\ last' = [Op("collect", "Ok") EXCEPT
                         !.freed = Len(slots) - NObject(h1)]
    /\ pc' = "collected"
    /\ UNCHANGED mark_que
    /\ MarkStep

\* A heap of MarkCap Nodes, each holding any set of them, the first one
\* being the entry.
InitMark ==
    /\ \E g \in [1..MarkCap -> SUBSET (1..MarkCap)] :
          cells = [a \in 1..MarkCap |-> LocalCell(NodeObj(SetToSeq(g[a])))]
    /\ arcs = [i \in 1..MarkCap |-> FreeArc]
    /\ slots = [i \in 1..MarkCap |-> i]
    /\ entry = 1
    /\ nmax = MarkCap
    /\ ub = {}
    /\ crashed = FALSE
    /\ dropped = FALSE
    /\ last = Op("other", "Ok")
    /\ NoThread
    /\ lent = <<>>
    /\ NoSync
    /\ NoWorker
    /\ NoCall

NextMark ==
    \/ CollectBegin
    \/ MarkPop
    \/ SweepSlots

SpecMark == InitMark /\ [][NextMark]_vars

\* The collection is one call: it runs on until it returns.
SpecMarkFair == SpecMark /\ WF_vars(NextMark)

\* ----------------------------------------------- handles of a SharedMemory

\* The objects inserted into the SharedMemory in one run.
MaxIds == 2

\* The RemoteObject handles alive at one time.
MaxRemote == 3

\* Inc::create: the id handed out and the counter after it.
IncCreate(n) == [id |-> n, next |-> n + 1]

\* SharedMemoryPriv::insert
PrivInsert(objs, n, max, object) ==
    IF Cardinality(DOMAIN objs) = max
    THEN [res |-> "MemoryFull", objects |-> objs, next |-> n, id |-> n]
    ELSE [res |-> "Ok",
          objects |-> [i \in DOMAIN objs \cup {IncCreate(n).id} |->
                          IF i = IncCreate(n).id
                          THEN [object |-> object, count |-> 0]
                          ELSE objs[i]],
          next |-> IncCreate(n).next, id |-> IncCreate(n).id]

\* SharedMemoryPriv::hold
PrivHold(objs, id) ==
    IF id \notin DOMAIN objs THEN [res |-> "SegFault", objects |-> objs]
    ELSE [res |-> "Ok", objects |-> [objs EXCEPT ![id].count = @ + 1]]

\* SharedMemoryPriv::unhold: the object goes when its count reaches 0.
PrivUnhold(objs, id) ==
    IF id \notin DOMAIN objs THEN [res |-> "SegFault", objects |-> objs]
    ELSE IF objs[id].count - 1 = 0
    THEN [res |-> "Ok", objects |-> [i \in DOMAIN objs \ {id} |-> objs[i]]]
    ELSE [res |-> "Ok", objects |-> [objs EXCEPT ![id].count = @ - 1]]

\* RemoteObject { internal, object_id }, with the thread that owns it.
RemoteObject(id, t) == [object_id |-> id, thread |-> t]

\* The handles left when the one at position i is gone.
Without(rs, i) == SubSeq(rs, 1, i - 1) \o SubSeq(rs, i + 1, Len(rs))

\* What a step on the SharedMemory leaves alone.
RemoteStep ==
    UNCHANGED <<cells, arcs, slots, entry, nmax, ub, crashed, dropped,
                threadvars, lent, held, wait, workvars, framevars, runvars,
                histvars, mpmcvars, peervars, markvars>>

\* shared.insert(Object(42)); write().unwrap() panics on a poisoned lock.
RemoteInsert(t) ==
    /\ object_id < MaxIds
    /\ \E r \in {PrivInsert(objects, object_id, max_count, 42)} :
          IF poisoned
          THEN /\ last' = [op |-> "insert", res |-> "Panic", id |-> object_id]
               /\ UNCHANGED <<objects, object_id>>
          ELSE /\ last' = [op |-> "insert", res |-> r.res, id |-> r.id]
               /\ objects' = r.objects
               /\ object_id' = r.next
    /\ who' = t
    /\ UNCHANGED <<max_count, remotes, poisoned, distributed>>
    /\ RemoteStep

\* shared.distribute(object_id) by thread t, for any id, inserted or not.
Distribute(id, t) ==
    /\ Len(remotes) < MaxRemote
    /\ \E r \in {PrivHold(objects, id)} :
          IF poisoned
          THEN /\ last' = [op |-> "distribute", res |-> "Panic", id |-> id]
               /\ UNCHANGED <<objects, remotes, distributed>>
          ELSE /\ last' = [op |-> "distribute", res |-> r.res, id |-> id]
               /\ objects' = r.objects
               /\ remotes' = IF r.res = "Ok"
                             THEN Append(remotes, RemoteObject(id, t))
                             ELSE remotes
               /\ distributed' = IF r.res = "Ok"
                                 THEN distributed \cup {id} ELSE distributed
    /\ who' = t
    /\ UNCHANGED <<object_id, max_count, poisoned>>
    /\ RemoteStep

\* remote.clone() (derive Clone: the Arc and the id are copied), the copy
\* going to thread t.
CloneRemote(i, t) ==
    /\ i \in DOMAIN remotes
    /\ Len(remotes) < MaxRemote
    /\ remotes' = Append(remotes, RemoteObject(remotes[i].object_id, t))
    /\ last' = [op |-> "clone", res |-> "Ok", id |-> remotes[i].object_id]
    /\ who' = t
    /\ UNCHANGED <<objects, object_id, max_count, poisoned, distributed>>
    /\ RemoteStep

\* Drop for RemoteObject: write().unwrap().unhold(id).expect("segfault").
\* A panic under the write guard poisons the lock.
DropRemote(i) ==
    /\ i \in DOMAIN remotes
    /\ \E r \in {PrivUnhold(objects, remotes[i].object_id)} :
          IF poisoned \/ r.res # "Ok"
          THEN /\ last' = [op |-> "drop", res |-> "Panic",
                           id |-> remotes[i].object_id]
               /\ poisoned' = TRUE
               /\ UNCHANGED objects
          ELSE /\ last' = [op |-> "drop", res |-> "Ok",
                           id |-> remotes[i].object_id]
               /\ objects' = r.objects
               /\ UNCHANGED poisoned
    /\ remotes' = Without(remotes, i)
    /\ who' = remotes[i].thread
    /\ UNCHANGED <<object_id, max_count, distributed>>
    /\ RemoteStep

\* SharedMemory::new(count)
InitRemote ==
    /\ NewMemory(0)
    /\ last = [op |-> "new", res |-> "Ok", id |-> 0]
    /\ NoThread
    /\ lent = <<>>
    /\ NoSync
    /\ NoWorker
    /\ NoHist /\ NoMpmc /\ NoPeer /\ NoMark /\ NoRun
    /\ objects = <<>>
    /\ object_id = 0
    /\ max_count \in 1..MaxIds
    /\ remotes = <<>>
    /\ poisoned = FALSE
    /\ distributed = {}

NextRemote ==
    \/ \E t \in Threads : RemoteInsert(t)
    \/ \E id \in 0..(MaxIds - 1), t \in Threads : Distribute(id, t)
    \/ \E i \in 1..MaxRemote, t \in Threads : CloneRemote(i, t)
    \/ \E i \in 1..MaxRemote : DropRemote(i)

SpecRemote == InitRemote /\ [][NextRemote]_vars

\* ------------------------------------- pops of the last frame and last env

\* All but the last element of a vector; Vec::pop on an empty vector does
\* nothing.
ButLast(s) == IF s = <<>> THEN <<>> ELSE SubSeq(s, 1, Len(s) - 1)

\* An operation the embedder called on the runtime returned res.
Answered(res) == rlast' = Outcome(res, Seen)

\* runtime.pop_frame() called by the embedder.  Runtime::pop_frame reads the
\* current env of the frame on top first; both pop the frame and only then
\* look for the frame below.
PopFrame ==
    LET fs == ButLast(frame_stack) IN
    /\ Alive
    /\ calls = <<>>
    /\ IF engine = "Runtime" /\ (frame_stack = <<>> \/ TopFrame = <<>>)
       THEN Panicked
       ELSE IF fs = <<>>
       THEN /\ Answered("EmptyFrameStack")
            /\ frame_stack' = fs
            /\ UNCHANGED <<root, nenv, calls>>
       ELSE IF fs[Len(fs)] = <<>>
       THEN Panicked
       ELSE /\ Answered("Ok")
            /\ frame_stack' = fs
            /\ root' = CurrentEnv(fs[Len(fs)])
            /\ UNCHANGED <<nenv, calls>>
    /\ RunStep

\* runtime.pop_env() called by the embedder: the env is popped, then the
\* root is set to the env below it, or EmptyEnvStack returned when there is
\* none.
PopEnv ==
    LET top == Len(frame_stack)
        es  == ButLast(TopFrame)
    IN
    /\ Alive
    /\ calls = <<>>
    /\ IF frame_stack = <<>>
       THEN Panicked
       ELSE /\ frame_stack' = [frame_stack EXCEPT ![top] = es]
            /\ root' = IF es = <<>> THEN root ELSE CurrentEnv(es)
            /\ Answered(IF es = <<>> THEN "EmptyEnvStack" ELSE "Ok")
            /\ UNCHANGED <<nenv, calls>>
    /\ RunStep

\* runtime.push_env() called by the embedder, the next operation on the
\* current frame.
PushEnv ==
    LET env == nenv + 1
        top == Len(frame_stack)
    IN
    /\ Alive
    /\ calls = <<>>
    /\ IF frame_stack = <<>>
       THEN Panicked
       ELSE IF nenv = MaxEnv
       THEN /\ Answered("OutOfMemory")
            /\ UNCHANGED <<frame_stack, root, nenv, calls>>
       ELSE IF TopFrame = <<>>
       THEN /\ Answered("Panic")
            /\ nenv' = env
            /\ UNCHANGED <<frame_stack, root, calls>>
       ELSE /\ frame_stack' = [frame_stack EXCEPT ![top] = Append(@, env)]
            /\ root' = env /\ nenv' = env
            /\ Answered("Ok")
            /\ UNCHANGED calls
    /\ RunStep

NextPop ==
    \/ \E callable \in BOOLEAN : RunMethod(callable)
    \/ BodyPushEnv
    \/ BodyPopEnv
    \/ BodyFail
    \/ BodyOk
    \/ PopFrame
    \/ PopEnv
    \/ PushEnv

SpecPop == InitRun /\ [][NextPop]_vars

\* -------------------------------------------------------------- properties

\* The slots reachable from e by following holdees, as a least fixed point.
RECURSIVE ReachFrom(_, _)
ReachFrom(cs, S) ==
    LET T == S \cup UNION {Range(GetHoldee(cs[x])) : x \in S} IN
    IF T = S THEN S ELSE ReachFrom(cs, T)

Reachable(cs, e) == IF e = None THEN {} ELSE ReachFrom(cs, {e})

\* The slots of the heap that the entry does not reach.
Garbage == Range(slots) \ Reachable(cells, entry)

\* C1: a collect() on a heap whose entry is set leaves exactly the slots that
\* were reachable from the entry by following holdees: every such slot is
\* kept and every other slot is removed.
C1_CollectKeepsReachable ==
    [][(last'.op = "collect" /\ entry # None)
         => /\ Range(slots') = Reachable(cells, entry) \cap Range(slots)
            /\ last'.freed = Cardinality(Garbage)]_vars

\* C1 witness: a collection from a set entry that removed garbage and kept
\* the entry.
C1_Witness ==
    /\ last.op = "collect" /\ entry # None
    /\ last.freed >= 1 /\ entry \in Range(slots)

\* C2: on a heap whose entry was never set, collect() leaves size 0.
C2_NoEntryCollectsAll ==
    (last.op = "collect" /\ entry = None) => slots = <<>>

\* C2 witness: a collection without an entry that removed two slots.
C2_Witness ==
    last.op = "collect" /\ entry = None /\ last.freed >= 2

\* C3: an insertion into a heap of size N_max runs one collection and then
\* succeeds exactly when some slot was unreachable from the entry, failing
\* with OutOfMemory otherwise; below N_max it succeeds with no collection.
C3_InsertAtCap ==
    [][last'.op = "insert"
         => IF Len(slots) = nmax
            THEN /\ (last'.res = "Ok") = (Garbage # {})
                 /\ (last'.res # "Ok") => (last'.res = "OutOfMemory")
                 /\ (last'.res = "Ok")
                      => /\ Range(slots') =
                              (Range(slots) \ Garbage) \cup {last'.a}
                         /\ last'.freed = Cardinality(Garbage)
            ELSE /\ last'.res = "Ok"
                 /\ slots' = Append(slots, last'.a)
                 /\ last'.freed = 0]_vars

\* C3 witness: an insertion that found the heap full, collected and
\* succeeded.
C3_Witness ==
    /\ last.op = "insert" /\ last.res = "Ok"
    /\ last.freed >= 1 /\ Len(slots) = nmax

\* C4: when an insertion fails with OutOfMemory, the heap has the slots,
\* payloads and entry it had before the call, and every mark bit is false.
C4_OutOfMemoryKeepsHeap ==
    [][(last'.op = "insert" /\ last'.res = "OutOfMemory")
         => /\ slots' = slots
            /\ cells' = cells
            /\ arcs' = arcs
            /\ entry' = entry
            /\ \A a \in Addr : ~cells'[a].mark]_vars

\* C4 witness: an insertion refused by a full heap all reachable from its
\* entry.
C4_Witness ==
    /\ last.op = "insert" /\ last.res = "OutOfMemory"
    /\ slots # <<>> /\ entry # None

\* C5: share() on a Local slot with a sharable payload keeps the address and
\* the heap's size, and the value read through the address is the one read
\* before; share() on a slot that is already Shared returns a handle to the
\* same payload and changes nothing in the heap.
C5_SharePreserves ==
    [][(last'.op = "share" /\ last'.res = "Ok")
         => LET a == last'.a IN
            /\ slots' = slots
            /\ entry' = entry
            /\ cells'[a].kind = "Shared"
            /\ last'.handle = cells'[a].arc
            /\ arcs'[last'.handle].rc >= 1
            /\ ReadVal(cells', arcs', a) = ReadVal(cells, arcs, a)
            /\ cells[a].kind = "Shared" => (cells' = cells /\ arcs' = arcs)]_vars

\* C5 witness: a Local Int was promoted and reads as before.
C5_Witness ==
    /\ last.op = "share" /\ last.res = "Ok" /\ last.pre = "Local"
    /\ cells[last.a].kind = "Shared"
    /\ ReadVal(cells, arcs, last.a) \in Values

\* C6: after share() has failed with NotSharable the slot still holds its
\* Local payload, alive, and no payload has been released twice.
C6_FailedShareKeepsPayload ==
    /\ (last.op = "share" /\ last.res = "NotSharable")
         => (cells[last.a].kind = "Local" /\ cells[last.a].live)
    /\ "payload_double_free" \notin ub
    /\ "use_after_free" \notin ub

\* C7: when a thread-method call has returned Ok, the join method on top of
\* the caller's stack and the Join that is its context both denote existing
\* slots of the caller's heap.
C7_JoinSurvivesCall ==
    (pc = "idle" /\ last.op = "call" /\ last.res = "Ok")
      => LET jm == Get(Heap, Top, 1)
             j  == Head(cells[jm].obj.hold)
         IN /\ jm \in Range(slots)
            /\ cells[jm].obj.ty = "JoinMethod"
            /\ j \in Range(slots)
            /\ cells[j].obj.ty = "Join"

\* C8: the storage of every slot is released exactly once: no release finds
\* storage already free, storage is allocated exactly while its address is
\* in the heap, and after the drop of the heap none is left.
C8_SlotReleasedOnce ==
    /\ "slot_double_free" \notin ub
    /\ Cardinality(Range(slots)) = Len(slots)
    /\ \A a \in Addr : cells[a].alloc <=> a \in Range(slots)
    /\ dropped => slots = <<>>

\* C8 witness: the heap was dropped with slots in it and all storage is free.
C8_Witness ==
    /\ last.op = "drop" /\ last.freed >= 1
    /\ \A a \in Addr : ~cells[a].alloc

C10_NoRefWithMut ==
    \A a \in Range(slots) :
        /\ ~(HasRef(a) /\ HasMut(a))
        /\ Cardinality({c \in Copies : lent[a][c].mut}) <= 1

\* The Shared slot the last accessor call was made on, and its lock.
LastArc == cells[last.a].arc

C12_SyncPanicsOnLocal ==
    [][(last'.op \in {"sync_ref", "sync_mut"} /\ last'.pre = "Local")
         => last'.res = "Panic"]_vars

\* C12 (amended): sync_ref and sync_mut return a reference at once, without
\* a panic, when the slot is Local; on a Shared slot the caller waits and
\* gets its guard only when the lock admits it: a read guard with no writer,
\* the write guard with no reader and no writer.
C12_SyncReturnsLocal ==
    [][/\ (last'.op \in {"sync_ref", "sync_mut"} /\ last'.pre = "Local")
          => (last'.res = "Ok" /\ wait'[who'] = NoWait /\ held' = held)
       /\ (last'.op \in {"sync_ref", "sync_mut"} /\ last'.pre = "Shared")
          => (last'.res = "Wait" /\ wait'[who'].op = last'.op /\ held' = held)
       /\ last'.op = "acquire"
          => LET id == cells[last'.a].arc IN
             /\ ~Writer(id)
             /\ wait[who'].op = "sync_mut" => (~Reader(id) /\ held'[id][who'].mut)
             /\ wait[who'].op = "sync_ref" => held'[id][who'].ref]_vars

\* C12 witness: the owner got a reference from sync_mut on the Local slot
\* while another thread waits for the Shared slot's lock.
C12_Witness ==
    /\ last.op = "sync_mut" /\ last.pre = "Local" /\ last.res = "Ok"
    /\ \E t \in Threads : wait[t] # NoWait

\* The Join a join method is bound to, and whether its handle is gone.
JoinOf(m) == Head(cells[m].obj.hold)

Consumed(m) == cells[JoinOf(m)].obj = JoinNone

\* A join-method call that has come back to the caller or unwound it.
JoinEnded == last.op = "join" /\ last.res # "Wait"

\* The top k addresses of main's frame, bottom first.
TopOfMain(k) ==
    LET s == FrameStack(Heap0, frames[1]) IN SubSeq(s, Len(s) - k + 1, Len(s))

\* C13 (as stated): the first invocation of a join method consumes the Join,
\* and a later invocation on the same Join returns an error to the caller
\* without panicking and without blocking.
C13_SecondJoinReturnsError ==
    /\ (JoinEnded /\ last.pre = "fresh") => Consumed(join)
    /\ (last.op = "join" /\ last.pre = "taken")
          => /\ last.res \notin {"Panic", "Wait", "Ok"}
             /\ pc # "panicked"

\* C14 (as stated): when the worker panicked, the join-method call returns an
\* error value, the caller's thread does not panic, and the Join is consumed.
C14_WorkerPanicIsAnError ==
    (JoinEnded /\ last.pre = "fresh" /\ wpc = "panicked")
       => /\ last.res \notin {"Panic", "Ok"}
          /\ pc # "panicked"
          /\ Consumed(join)

\* C15 (as stated): a join-method call returns only after the worker has
\* ended, and with a context of 42 incremented once directly and once by the
\* worker the context reads 44 once the join has returned.
C15_ContextReads44 ==
    (pc = "joined" /\ script.body = "inc" /\ Len(wargs.given) >= 1)
       => /\ wpc = "done"
          /\ ReadVal(cells, arcs, FrameContext(Heap0, frames[1])) = 44

\* thread.rs 29: (1..=arg_count).collect(), the indices of the worker's call.
WorkerIndices(args) == [i \in 1..Len(args) |-> i]

\* C16: while the worker runs its method, its initial frame holds, bottom to
\* top, the shared payloads of the n addresses the frame handed to the thread
\* function held bottom to top, and the method is called with indices 1..n.
C16_WorkerFrameKeepsOrder ==
    wpc \in {"body", "write"}
       => /\ Len(wstack) = Len(wargs.given)
          /\ \A i \in 1..Len(wargs.given) :
                /\ cells[wargs.given[i]].kind = "Shared"
                /\ wstack[i] = cells[wargs.given[i]].arc
          /\ WorkerIndices(wargs.args) = [i \in 1..Len(wargs.given) |-> i]

\* C16 witness: the worker is about to run its method on two arguments.
C16_Witness ==
    /\ wpc = "body"
    /\ Len(wargs.given) = 2
    /\ wstack[1] # wstack[2]
    /\ wstack[1] = cells[wargs.given[1]].arc

\* C17: a join that returned Ok returned m, the number of results of the
\* worker's method, and the top m entries of the caller's frame are, bottom
\* to top, Shared slots of the caller's heap on the payloads r1..rm, none of
\* them an argument of the worker.
C17_ResultsKeepOrder ==
    (pc = "joined" /\ last.pre = "fresh" /\ last.res = "Ok")
       => /\ ret = script.nres
          /\ Len(TopOfMain(ret)) = script.nres
          /\ \A k \in 1..script.nres :
                /\ cells[TopOfMain(ret)[k]].alloc
                /\ cells[TopOfMain(ret)[k]].kind = "Shared"
                /\ cells[TopOfMain(ret)[k]].arc = WorkerArc(k)
                /\ WorkerArc(k) \notin Range(wargs.args)
                /\ arcs[WorkerArc(k)].rc >= 1

\* C17 witness: a join has returned two results of a worker that had an
\* argument.
C17_Witness ==
    /\ pc = "joined" /\ last.pre = "fresh" /\ last.res = "Ok"
    /\ ret = 2
    /\ Len(wargs.args) >= 1
    /\ cells[TopOfMain(2)[1]].arc = WorkerArc(1)
    /\ cells[TopOfMain(2)[2]].arc = WorkerArc(2)

\* The entries a call has added to the caller's stack so far.
NewEntries ==
    LET s == FrameStack(Heap0, frames[1]) IN
    SubSeq(s, Len(fr.stack0) + 1, Len(s))

\* The top k entries of a stack, bottom first.
TopK(s, k) == SubSeq(s, Len(s) - k + 1, Len(s))

\* A call whose body returned Ok(()) has come back.
CallCameBack == pc = "returned" /\ last.op = "call" /\ last.res = "Ok"

Count(op) == Cardinality({j \in DOMAIN fr.ops : fr.ops[j].op = op})

PushedThenHandedUp ==
    fr.ops = <<Did("push", 0), Did("push", 0), Did("push", 0),
               Did("push_parent", 1), Did("push_parent", 1),
               Did("push_parent", 1)>>

C20_FailedCallRestores ==
    rlast.res = "BodyErr"
       => /\ Len(frame_stack) = rlast.depth0
          /\ root = rlast.root0

\* C21 (as stated): a call of an object that is not a method fails with
\* NotCallable and leaves the runtime as it was: the same depth of the frame
\* stack, the same root, the same number of objects in the memory.
C21_NotCallableChangesNothing ==
    rlast.res = "NotCallable"
       => /\ Len(frame_stack) = rlast.depth0
          /\ root = rlast.root0
          /\ nenv = rlast.size0

\* C22 (as stated): the root of the memory is the current environment of the
\* frame on top of the frame stack, after boot, during bodies at any depth,
\* after returns, after push_env and after pop_env.
C22_RootFollowsExecution ==
    (Alive /\ frame_stack # <<>>)
       => /\ TopFrame # <<>>
          /\ root = CurrentEnv(TopFrame)

\* What the frames of the frame stack keep: the frames themselves, their
\* contexts and the entries of their operand stacks.
CallerChain(h, fs) ==
    Range(fs) \cup UNION {Range(h.cells[f].obj.hold) : f \in Range(fs)}

\* C23: a collection that runs while a callee executes, at any nesting
\* depth, reclaims no frame of the frame stack, no context of such a frame and
\* no address on the operand stack of such a frame: whatever the step, every
\* such slot is in the heap afterwards with the payload it had, and every
\* frame still is a Frame with its context and its parent.
C23_CollectionKeepsCallerChain ==
    [][(Running /\ pc = "idle" /\ frames # <<>>)
          => /\ Running' /\ ub' = {}
             /\ \A x \in CallerChain(Heap0, frames) :
                   /\ x \in Range(slots')
                   /\ cells'[x].alloc /\ cells'[x].live
                   /\ cells'[x].obj.ty = cells[x].obj.ty
                   /\ cells'[x].obj.val = cells[x].obj.val
                   /\ x \notin Range(frames) => cells'[x] = cells[x]
             /\ \A k \in 1..Len(frames) :
                   /\ cells'[frames[k]].obj.ty = "Frame"
                   /\ FrameContext(Heap', frames[k])
                         = FrameContext(Heap0, frames[k])
                   /\ k > 1 => FrameParent(Heap', frames[k]) = frames[k - 1]]_vars

\* C23 witness: a collection released a slot while a callee of a callee was
\* running, and the three frames of the chain are in the heap.
C23_Witness ==
    /\ Running /\ last.freed > 0
    /\ Len(frames) = 3
    /\ \A x \in CallerChain(Heap0, frames) : x \in Range(slots)

RECURSIVE SeqToBag(_)
SeqToBag(s) ==
    IF s = <<>> THEN EmptyBag ELSE SetToBag({Head(s)}) (+) SeqToBag(Tail(s))

RECURSIVE SeqSum(_)
SeqSum(s) == IF s = <<>> THEN 0 ELSE Head(s) + SeqSum(Tail(s))

\* Every task the producers have pushed so far.
RECURSIVE Pushed(_)
Pushed(n) ==
    IF n = 0 THEN EmptyBag
    ELSE Pushed(n - 1)
            (+) (IF IsConsumer(n) THEN EmptyBag
                 ELSE SeqToBag(SubSeq(Tasks, 1, work[n].i)))

\* Every task the consumers have popped so far.
RECURSIVE Popped(_)
Popped(n) == IF n = 0 THEN EmptyBag ELSE Popped(n - 1) (+) work[n].got

\* The sums of the consumers, added up.
RECURSIVE Summed(_)
Summed(n) == IF n = 0 THEN 0 ELSE Summed(n - 1) + work[n].sum

Consumers == {w \in Workers : IsConsumer(w)}

HasReturned(w) == work[w].pc \in {"done", "joined"}

\* C24: in the producers-and-consumers example every pushed task is in the
\* queue or was popped by exactly one consumer; a consumer has popped the
\* sentinel exactly once when it has returned and never before; when the
\* last consumer has returned the queue is empty and the consumers' sums add
\* up to the sum of all pushed tasks; and the sums main reads from the joins
\* add up to that too.
C24_EveryTaskPoppedOnce ==
    /\ Pushed(2 * NPair) = SeqToBag(queue) (+) Popped(2 * NPair)
    /\ \A w \in Consumers :
          CopiesIn(Sentinel, work[w].got) = IF HasReturned(w) THEN 1 ELSE 0
    /\ (\A w \in Consumers : HasReturned(w))
          => /\ queue = <<>>
             /\ \A w \in Workers \ Consumers : work[w].i = Len(Tasks)
             /\ Summed(2 * NPair) = NPair * SeqSum(Tasks)
    /\ work[Main].pc = "done"
          => /\ Len(sums) = NPair
             /\ SeqSum(sums) = NPair * SeqSum(Tasks)

\* C24 witness: main has read every consumer's sum, and a consumer returned a
\* sum that is not 0: the tasks were not dealt out evenly.
C24_Witness ==
    /\ work[Main].pc = "done"
    /\ \E k \in 1..Len(sums) : sums[k] # 0

\* Every thread main spawns is running or has returned.
AllSpawned == work[Main].pc # "spawn"

\* A thread that waits in park() for a token nobody has made available.
Parked(w) == work[w].pc = "park" /\ ~work[w].token

\* Every thread that has not returned waits in park().
AllParked ==
    /\ AllSpawned
    /\ \E w \in Workers : ~HasReturned(w)
    /\ \A w \in Workers : ~HasReturned(w) => Parked(w)

\* C25: under fair scheduling every producer and every consumer of the
\* example returns and main gets through every join; a thread that waits in
\* park() is unparked and leaves it (no wake-up is lost); and the threads that
\* have not returned are never all waiting in park().
C25_EveryThreadTerminates ==
    /\ <>[](work[Main].pc = "done" /\ \A w \in Workers : work[w].pc = "joined")
    /\ \A w \in Workers : (work[w].pc = "park") ~> (work[w].pc # "park")
    /\ [](~AllParked)

\* C25 witness: a consumer that parked on the empty queue and a producer that
\* parked on the full queue have both been unparked and have not run yet.
C25_Witness ==
    /\ \E w \in Consumers : work[w].pc = "park" /\ work[w].token
    /\ \E w \in Workers \ Consumers : work[w].pc = "park" /\ work[w].token

\* C26: an Address is never reused after reclamation: the Address an
\* insertion returns is not the Address of a slot that a collection released
\* from this heap before.
C26_AddressNeverReused ==
    (last.op = "insert" /\ last.res = "Ok") => last.a \notin reclaimed

\* The payload behind an address: the Object of a Local slot, the content of
\* the SyncObject of a Shared one.
PayloadAt(cs, as, a) ==
    IF cs[a].kind = "Shared" THEN as[cs[a].arc].obj ELSE cs[a].obj

\* No address is in the heap twice.
Distinct(s) == \A i, j \in DOMAIN s : i # j => s[i] # s[j]

\* The slots that are in the heap before and after the step at hand: the
\* addresses found in both, but for the address of a slot that the step
\* released and whose storage the step's insertion took again.
Survivors ==
    (Range(slots) \cap Range(slots'))
       \ (IF last'.op = "insert" THEN {last'.a} ELSE {})

\* C27: the addresses of the slots that are in the heap together are pairwise
\* unequal, and a slot that survives a step (an insertion, a collection, a
\* promotion) is found at the address it had: behind every address that
\* stays in the heap is the payload that was there, Local or promoted.
C27_AddressesAreStable ==
    [][(Running /\ Running')
          => /\ Distinct(slots')
             /\ \A a \in Survivors :
                   /\ cells'[a].alloc
                   /\ cells[a].live /\ cells'[a].live
                         => /\ PayloadAt(cells', arcs', a).ty
                                  = PayloadAt(cells, arcs, a).ty
                            /\ PayloadAt(cells', arcs', a).val
                                  = PayloadAt(cells, arcs, a).val]_vars

\* C27 witness: a collection released a slot and kept a promoted one.
C27_Witness ==
    /\ Running
    /\ last.op = "collect" /\ last.freed > 0
    /\ \E a \in Range(slots) : cells[a].kind = "Shared"

\* C28: once a Local slot is promoted and the handle is inserted into the
\* second thread's heap, the two addresses refer to one payload: the slot of
\* the second heap holds the Arc of main's slot, the content lives as long as
\* main's slot does, and what main reads through its address after the join,
\* when the second heap has been dropped, is what the thread wrote last.
C28_WriteSeenThroughOriginal ==
    (Running /\ peer.main # "start")
       => /\ cells[peer.addr].alloc /\ cells[peer.addr].kind = "Shared"
          /\ arcs[cells[peer.addr].arc].rc >= 1
          /\ \A i \in DOMAIN peer.slots :
                peer.slots[i] = cells[peer.addr].arc
          /\ arcs[cells[peer.addr].arc].obj = IntObj(peer.wrote)
          /\ peer.main = "read" => peer.read = peer.wrote

\* C28 witness: main has joined the thread and read, through the address it
\* promoted, the value the thread wrote; the thread's heap is gone.
C28_Witness ==
    /\ Running
    /\ peer.main = "read" /\ peer.pc = "returned" /\ peer.slots = <<>>
    /\ peer.n > 0 /\ peer.read \in Written

\* A handle of a SyncObject whose content is alive.
IsHandle(id) == id \in DOMAIN arcs /\ arcs[id].rc >= 1 /\ arcs[id].obj # NoObj

\* What make_thread's closure moved into the worker.
Moved == {wargs.method, wargs.ctx} \cup Range(wargs.args)

\* C29: threads are coupled only through Shared payloads.  Everything the
\* thread method moves into the worker (the method, its context, every
\* argument) is the handle of a live SyncObject, and the slots of main they
\* were taken from are Shared slots with those handles; everything on the
\* worker's stack and everything the worker returns is such a handle; and
\* the frames of main hold addresses of main's own heap only.
C29_OnlyHandlesCross ==
    Running
       => /\ wargs.method # None
                => /\ \A id \in Moved : IsHandle(id)
                   /\ \A a \in Range(wargs.given) :
                         /\ cells[a].kind = "Shared"
                         /\ cells[a].arc \in Range(wargs.args)
                   /\ Len(wargs.args) = Len(wargs.given)
          /\ \A id \in Range(wstack) \cup Range(wres.handles) : IsHandle(id)
          /\ \A f \in Range(frames) :
                \A a \in Range(cells[f].obj.hold) :
                   a \in Range(slots) /\ cells[a].alloc

\* C29 witness: a worker that was given an argument has returned a result
\* and main's join has handed it up.
C29_Witness ==
    /\ Running /\ pc = "joined" /\ last.res = "Ok"
    /\ wargs.args # <<>> /\ wres.handles # <<>>
    /\ cells[Get(Heap0, Top, 1)].kind = "Shared"
    /\ cells[Get(Heap0, Top, 1)].arc \in Range(wres.handles)

\* The addresses the payload behind a slot holds, Local or promoted.
Held(h, a) == Range(ObjHoldee(PayloadOf(h, a)))

\* The slots the entry reaches along paths through Local slots only, as a
\* least fixed point.
RECURSIVE PathsFrom(_, _)
PathsFrom(h, S) ==
    LET T == S \cup UNION {Held(h, x) :
                              x \in {y \in S : /\ h.cells[y].alloc
                                               /\ h.cells[y].kind = "Local"}}
    IN IF T = S THEN S ELSE PathsFrom(h, T)

LocalPaths(h) == IF h.entry = None THEN {} ELSE PathsFrom(h, {h.entry})

\* C30: during a collection a Shared slot is a leaf.  Every slot that the
\* entry reaches only along paths through a Shared slot is released by a
\* collection (collect(), or the one an insertion at the cap runs), as is
\* the slot a Method was holding as its context before the Method was
\* promoted; an insertion may take the released address again.
C30_SharedSlotIsLeaf ==
    [][(/\ ~crashed'
        /\ \/ last'.op = "collect"
           \/ last'.op = "insert" /\ AtCap(Heap, nmax))
          => \A a \in Range(slots) \ LocalPaths(Heap) :
                \/ a \notin Range(slots') /\ ~cells'[a].alloc
                \/ last'.op = "insert" /\ last'.res = "Ok" /\ last'.a = a]_vars

\* C30 witness: the entry is a promoted Method, and a collection has
\* released the slot of its context, whose content the Method's handle
\* keeps alive.
C30_Witness ==
    /\ Running /\ last.op = "collect" /\ last.freed >= 1
    /\ entry # None /\ cells[entry].kind = "Shared"
    /\ PayloadOf(Heap, entry).ty \in MethodTypes
    /\ \E c \in Held(Heap, entry) :
          /\ c \notin Range(slots) /\ ~cells[c].alloc
          /\ arcs[c].rc >= 1 /\ arcs[c].obj.ty = "Int"

\* The slot at a lies on a cycle of holdees (a slot holding itself included).
OnCycle(cs, a) == a \in ReachFrom(cs, Range(GetHoldee(cs[a])))

\* The heap with every mark bit clear, as a collection finds it.
Unmarking(h) == [h EXCEPT !.cells = [a \in DOMAIN @ |-> Unmarked(@[a])]]

\* C31: collect() terminates for every holdee graph, with cycles, slots
\* holding themselves and slots held by several holders; when it returns,
\* every slot on a cycle that the entry reaches is kept, every cycle the
\* entry does not reach is released, and the slots left are exactly the
\* reachable ones, those Collect computes in one step.
C31_CollectTerminatesOnCycles ==
    /\ <>(pc = "collected")
    /\ [][pc' = "collected"
            => /\ \A a \in Range(slots) :
                     OnCycle(cells, a)
                        => IF a \in Reachable(cells, entry)
                           THEN a \in Range(slots') /\ cells'[a].alloc
                           ELSE a \notin Range(slots') /\ ~cells'[a].alloc
               /\ Range(slots') = Reachable(cells, entry)
               /\ slots' = Collect(Unmarking(Heap0)).slots
               /\ \A a \in Range(slots') : ~IsMarked(cells'[a])]_vars

\* C31 witness: the collection has returned; the entry holds itself and lies
\* on a cycle with a second slot, both kept, and a slot that held itself was
\* released.
C31_Witness ==
    /\ pc = "collected" /\ last.freed = 1
    /\ Len(slots) = 2 /\ entry \in Range(slots)
    /\ \A a \in Range(slots) : OnCycle(cells, a)
    /\ entry \in Range(GetHoldee(cells[entry]))
    /\ Len(GetHoldee(cells[entry])) >= 2

\* A slot held by several holders waits in the queue more than once.
QueuedTwice ==
    \E i, j \in DOMAIN mark_que : i # j /\ mark_que[i] = mark_que[j]

\* The handles alive for the object id.
Live(id) == {i \in DOMAIN remotes : remotes[i].object_id = id}

\* The ids whose every handle has been dropped.
Forsaken == {id \in distributed : Live(id) = {}}

\* C32: once the last RemoteObject handed out or cloned for an object has
\* been dropped, the object is no longer in the SharedMemory and every later
\* distribute(id) returns the SegFault error; an insertion never hands out
\* an id that was handed out before.
C32_DroppedObjectIsGone ==
    /\ [](\A id \in Forsaken : id \notin DOMAIN objects)
    /\ [][(last'.op = "distribute" /\ last'.id \in Forsaken)
             => last'.res = "SegFault"]_vars
    /\ [][(last'.op = "insert" /\ last'.res = "Ok")
             => /\ last'.id = object_id
                /\ object_id' = object_id + 1
                /\ last'.id \notin DOMAIN objects \cup distributed]_vars

\* C37: the hold count of every object is the number of its live handles,
\* no object is removed while a handle to it exists, and no drop of a handle
\* panics.
C37_HoldCountMatchesHandles ==
    /\ \A id \in DOMAIN objects : objects[id].count = Cardinality(Live(id))
    /\ \A i \in DOMAIN remotes : remotes[i].object_id \in DOMAIN objects
    /\ last.op = "drop" => last.res = "Ok"

\* C33: the size of the heap never exceeds N_max, and with N_max = 0 every
\* insertion fails with OutOfMemory.  The size changes by +1 on a successful
\* insertion and by minus the number of unreachable slots on a collection,
\* the one an insertion at the cap runs included; share and set_entry leave
\* it as it is.
C33_SizeWithinCap ==
    /\ [](Running => Len(slots) <= nmax)
    /\ [][~crashed'
            => /\ last'.op = "insert"
                    => /\ nmax = 0 => last'.res = "OutOfMemory"
                       /\ Len(slots') =
                             Len(slots)
                                - (IF AtCap(Heap, nmax)
                                   THEN Cardinality(Garbage) ELSE 0)
                                + (IF last'.res = "Ok" THEN 1 ELSE 0)
               /\ last'.op = "collect"
                    => Len(slots') = Len(slots) - Cardinality(Garbage)
               /\ last'.op \in {"share", "other"}
                    => Len(slots') = Len(slots)]_vars

\* C33 witness: an insertion into a heap of capacity 0 failed with
\* OutOfMemory and the heap is empty.
C33_Witness ==
    /\ nmax = 0 /\ slots = <<>>
    /\ last.op = "insert" /\ last.res = "OutOfMemory"

\* The Joins and join methods in the heap, Local or promoted.
JoinSlots(h) ==
    {a \in Range(h.slots) : PayloadOf(h, a).ty \in {"Join", "JoinMethod"}}

\* C34: when the context of a thread method or one of the arguments cannot
\* be promoted, the closure stops with NotSharable at the promotion, before
\* the worker is spawned, and the call returns NotSharable: no slot is
\* inserted, so no Join and no join method, and the caller's stack is what it
\* was.
C34_UnsharableCallSpawnsNothing ==
    [][(~crashed' /\ last'.res = "NotSharable")
          => /\ \/ last'.op = "body" /\ pc = "share" /\ pc' = "return"
                \/ last'.op = "call" /\ pc = "return" /\ pc' = "idle"
             /\ join = None /\ join' = None
             /\ slots' = slots
             /\ JoinSlots(Heap') = JoinSlots(Heap)
             /\ \E caller \in {FrameParent(Heap, Top)} :
                   /\ FrameStack(Heap', caller) = FrameStack(Heap, caller)
                   /\ last'.op = "call" => frames' = <<caller>>]_vars

\* C34 witness: a thread-method call with an argument has returned
\* NotSharable to the embedder, the method and the argument still on its
\* stack.
C34_Witness ==
    /\ Running /\ pc = "idle"
    /\ last.op = "call" /\ last.res = "NotSharable"
    /\ Len(FrameStack(Heap, Top)) >= 2
    /\ JoinSlots(Heap) = {}

\* The worker's closure has returned an error and main waits in the join.
WorkerFailed == pc = "joining" /\ wpc = "done" /\ wres.res # "Ok"

CallerStack(h) == FrameStack(h, frames[1])

\* This step is the return of a call (direct, of the thread method or of the
\* join method) with Ok.
CallComesBack ==
    /\ pc' # pc
    /\ pc' \in {"called", "spawned", "joined"}
    /\ last'.res = "Ok"

\* C36: no step of a call, the thread method that pops all of its arguments
\* included, removes or reorders an entry of the caller's stack: the L0
\* entries the caller had stay the same addresses in the same order, and a
\* call that returns Ok with k has appended exactly k entries above them.
C36_CallKeepsCallerEntries ==
    [][\E s0 \in {CallerStack(Heap)}, s1 \in {CallerStack(Heap')} :
          /\ frames'[1] = frames[1]
          /\ Len(s1) >= Len(s0)
          /\ SubSeq(s1, 1, Len(s0)) = s0
          /\ CallComesBack => Len(s1) = Len(s0) + ret']_vars

\* C36 witness: the thread method was called on the two arguments the direct
\* call had used, popped both in its own frame, and the caller's stack is
\* the two arguments, in place, under the join method.
C36_Witness ==
    /\ Running /\ pc = "spawned" /\ last.res = "Ok"
    /\ Len(wargs.given) = 2
    /\ ret = 1
    /\ CallerStack(Heap) = <<4, 5, join>>
    /\ cells[4].kind = "Shared" /\ cells[5].kind = "Shared"

\* This step is a pop_frame or a pop_env that returned its Empty...Stack
\* error.
PopFails == rlast'.res \in {"EmptyFrameStack", "EmptyEnvStack"}

\* C38 (as stated): a pop_frame on the last frame or a pop_env on the last
\* environment that fails leaves the frame stack, the environment stacks and
\* the root as they were before the call.
C38_FailedPopChangesNothing ==
    [][PopFails => frame_stack' = frame_stack /\ root' = root]_vars

\* The part of C38 the code does keep: popping the last frame returns
\* EmptyFrameStack, popping the last environment returns EmptyEnvStack, and
\* neither moves the root.
FailedPopReports ==
    [][/\ PopFails => root' = root
       /\ (Alive /\ calls = <<>> /\ Len(frame_stack) = 1
              /\ Len(frame_stack') = 0 /\ rlast'.res # "Panic")
             => rlast'.res = "EmptyFrameStack"
       /\ (Alive /\ calls = <<>> /\ frame_stack # <<>>
              /\ Len(frame_stack') = Len(frame_stack)
              /\ Len(TopFrame) = 1 /\ Len(TopFrame') = 0)
             => rlast'.res = "EmptyEnvStack"]_vars

====
